---- MODULE Spec2Model ----
(***************************************************************************)
(* OpenNN perceptron layer: parameter storage and flattening, forward      *)
(* propagation, and backward propagation of the hidden delta.              *)
(*                                                                         *)
(* Numbers are integers: every operation modelled here is a copy, a sum or *)
(* a product, which integers carry exactly.  A rank-2 Eigen tensor is a    *)
(* record [d0, d1, data] whose data is the column-major storage, so that   *)
(* linear index k is data[k+1] and cell (i, j) is data[i + j*d0 + 1].      *)
(***************************************************************************)
EXTENDS Integers, Sequences, FiniteSets, TLC

VARIABLES
    debug,                   \* whether the build defines OPENNN_DEBUG
    biases,                  \* PerceptronLayer::biases
    synaptic_weights,        \* PerceptronLayer::synaptic_weights
    activation_function,     \* PerceptronLayer::activation_function
    op,                      \* the operation performed by the last step
    error,                   \* how the last operation ended
    parameters,              \* the flattened vector last returned or passed
    index,                   \* the index argument of the last set_parameters
    inputs,                  \* the batch of inputs handed to the layer
    combinations,            \* PerceptronLayerForwardPropagation::combinations
    activations,             \* PerceptronLayerForwardPropagation::activations
    activations_derivatives, \* PerceptronLayerForwardPropagation::activations_derivatives
    outputs,                 \* the tensor returned by calculate_outputs
    next_layer,              \* the layer after this one: kind, size, weights
    next_activations_derivatives, \* the next layer's forward propagation
    next_delta,              \* the next layer's back propagation: delta
    delta_row,               \* the next layer's back propagation: delta_row
    error_combinations_derivatives, \* the next layer's back propagation
    delta,                   \* this layer's back propagation: delta
    branch,                  \* the formula calculate_hidden_delta selected
    biases_derivatives,      \* this layer's back propagation: biases_derivatives
    synaptic_weights_derivatives, \* this layer's back propagation
    squared_errors_Jacobian, \* this layer's back propagation (Levenberg-Marquardt)
    new_activation_function_name, \* the function the last step passed to set_activation_function
    quasi_newton_method,     \* the optimizer: its method and its thresholds
    optimization_data,       \* QuasiNewtonMehtodData
    back_propagation,        \* the loss index's view: parameters, loss, gradient
    training,                \* the run: what it counted and how it ended
    epoch_step,              \* the step of the epoch perform_training is at
    gradient,                \* the vector of all derivatives insert_gradient writes into
    tensor_arguments,        \* the arguments of the tensor utility called
    tensor_result,           \* the tensor that utility writes
    iterations,              \* the progress of each iteration of its parallel loop
    diagnostic               \* what the message of the last exception reports

layer_vars == <<biases, synaptic_weights, activation_function>>

forward_vars == <<inputs, combinations, activations, activations_derivatives, outputs>>

delta_vars == <<next_layer, next_activations_derivatives, next_delta, delta_row,
                error_combinations_derivatives, delta, branch>>

gradient_vars == <<biases_derivatives, synaptic_weights_derivatives, squared_errors_Jacobian>>

dispatch_vars == <<new_activation_function_name>>

training_vars == <<quasi_newton_method, optimization_data, back_propagation, training, epoch_step>>

utility_vars == <<gradient, tensor_arguments, tensor_result, iterations, diagnostic>>

extension_vars == <<gradient_vars, dispatch_vars, training_vars, utility_vars>>

vars == <<debug, layer_vars, op, error, parameters, index, forward_vars, delta_vars,
          extension_vars>>

----------------------------------------------------------------------------
(* Bounds *)

MaxInputs == 2
MaxNeurons == 2
MaxIndex == 1
MaxBatch == 2

Slopes == {-1, 1}
Offsets == {0, 1}

----------------------------------------------------------------------------
(* Tensors *)

RECURSIVE Tuple(_, _)
Tuple(f, n) == IF n = 0 THEN <<>> ELSE Append(Tuple(f, n - 1), f[n])

Tensor2(rows, columns, data) == [d0 |-> rows, d1 |-> columns, data |-> data]

Size(t) == Len(t.data)

Linear(t, k) == t.data[k + 1]

At(t, i, j) == t.data[i + j * t.d0 + 1]

Ramp(n, a, b) == Tuple([k \in 1..n |-> a * (k - 1) + b], n)

\* a tensor of the given shape whose cells are not yet written
resize(rows, columns) == Tensor2(rows, columns, Ramp(rows * columns, 0, 0))

Vectors(n) == {Ramp(n, a, b) : a \in Slopes, b \in Offsets}

Matrices(rows, columns) == {Tensor2(rows, columns, v) : v \in Vectors(rows * columns)}

ActivationFunction ==
    {"Threshold", "SymmetricThreshold", "Logistic", "HyperbolicTangent", "Linear",
     "RectifiedLinear", "ExponentialLinear", "ScaledExponentialLinear",
     "SoftPlus", "SoftSign", "HardSigmoid"}

RECURSIVE SumTo(_, _)
SumTo(f, n) == IF n = 0 THEN 0 ELSE f[n] + SumTo(f, n - 1)

----------------------------------------------------------------------------
(* Perceptron layer: sizes *)

get_inputs_number(w) == w.d0

get_neurons_number(b) == Size(b)

get_biases_number(b) == Size(b)

get_synaptic_weights_number(w) == Size(w)

get_parameters_number(b, w) == Size(b) + Size(w)

----------------------------------------------------------------------------
(* Perceptron layer: flattening *)

get_parameters_weights_first(b, w) ==
    Tuple([k \in 1..(Size(w) + Size(b)) |->
              IF k <= Size(w) THEN Linear(w, k - 1) ELSE Linear(b, k - 1 - Size(w))],
          Size(w) + Size(b))

get_parameters(b, w) ==
    Tuple([k \in 1..(Size(w) + Size(b)) |->
              IF k <= Size(b) THEN Linear(b, k - 1) ELSE Linear(w, k - 1 - Size(b))],
          Size(w) + Size(b))

memcpy(destination, source, offset) ==
    [destination EXCEPT !.data =
        Tuple([k \in 1..Size(destination) |-> source[offset + k]], Size(destination))]

setConstant(t, value) == [t EXCEPT !.data = Ramp(Size(t), 0, value)]

set_parameters_biases(b, w, new_parameters, idx) ==
    memcpy(b, new_parameters, idx)

set_parameters_weights_no_offset(b, w, new_parameters, idx) ==
    memcpy(w, new_parameters, idx)

set_parameters_weights(b, w, new_parameters, idx) ==
    memcpy(w, new_parameters, get_biases_number(b) + idx)

----------------------------------------------------------------------------
(* Perceptron layer: actions on the parameters *)

\* an operation of the layer that takes no batch and no propagation buffer
layer_frame ==
    /\ error' = "none"
    /\ new_activation_function_name' = ""
    /\ UNCHANGED <<debug, forward_vars, delta_vars, gradient_vars, training_vars, utility_vars>>

\* an operation that neither takes nor returns a flattened vector
no_vector == parameters' = <<>> /\ index' = 0

set_empty ==
    /\ biases' = Tensor2(0, 0, <<>>)
    /\ synaptic_weights' = Tensor2(0, 0, <<>>)
    /\ op' = "set"
    /\ no_vector
    /\ layer_frame
    /\ UNCHANGED activation_function

\* the successive values of rand() are the entries of one vector
set_parameters_random(b, w) ==
    \E random \in Vectors(Size(b) + Size(w)) :
        /\ biases' = memcpy(b, random, 0)
        /\ synaptic_weights' = memcpy(w, random, Size(b))

set_architecture(new_inputs_number, new_neurons_number, new_activation_function) ==
    /\ set_parameters_random(resize(1, new_neurons_number),
                             resize(new_inputs_number, new_neurons_number))
    /\ activation_function' = new_activation_function
    /\ op' = "set"
    /\ no_vector
    /\ layer_frame

set_biases(new_biases) ==
    /\ biases' = new_biases
    /\ op' = "set_biases"
    /\ no_vector
    /\ layer_frame
    /\ UNCHANGED <<synaptic_weights, activation_function>>

set_synaptic_weights(new_synaptic_weights) ==
    /\ synaptic_weights' = new_synaptic_weights
    /\ op' = "set_synaptic_weights"
    /\ no_vector
    /\ layer_frame
    /\ UNCHANGED <<biases, activation_function>>

set_parameters(new_parameters, idx) ==
    /\ biases' = set_parameters_biases(biases, synaptic_weights, new_parameters, idx)
    /\ synaptic_weights' = set_parameters_weights(biases, synaptic_weights, new_parameters, idx)
    /\ parameters' = new_parameters
    /\ index' = idx
    /\ op' = "set_parameters"
    /\ layer_frame
    /\ UNCHANGED activation_function

set_parameters_constant(value) ==
    /\ biases' = setConstant(biases, value)
    /\ synaptic_weights' = setConstant(synaptic_weights, value)
    /\ op' = "set_parameters_constant"
    /\ no_vector
    /\ layer_frame
    /\ UNCHANGED activation_function

set_parameters_random_call ==
    /\ set_parameters_random(biases, synaptic_weights)
    /\ op' = "set_parameters_random"
    /\ no_vector
    /\ layer_frame
    /\ UNCHANGED activation_function

set_activation_function(new_activation_function) ==
    /\ activation_function' = new_activation_function
    /\ new_activation_function_name' = new_activation_function
    /\ op' = "set_activation_function"
    /\ no_vector
    /\ error' = "none"
    /\ UNCHANGED <<debug, forward_vars, delta_vars, gradient_vars, training_vars, utility_vars>>
    /\ UNCHANGED <<biases, synaptic_weights>>

get_parameters_call ==
    /\ parameters' = get_parameters(biases, synaptic_weights)
    /\ index' = 0
    /\ op' = "get_parameters"
    /\ layer_frame
    /\ UNCHANGED <<biases, synaptic_weights, activation_function>>

\* set_parameters(get_parameters()), index defaulted to 0
round_trip ==
    LET p == get_parameters(biases, synaptic_weights) IN
    /\ biases' = set_parameters_biases(biases, synaptic_weights, p, 0)
    /\ synaptic_weights' = set_parameters_weights(biases, synaptic_weights, p, 0)
    /\ parameters' = p
    /\ index' = 0
    /\ op' = "round_trip"
    /\ layer_frame
    /\ UNCHANGED activation_function

----------------------------------------------------------------------------
(* Specification of the layer's parameter storage *)

LayerActivationFunctions == {"Linear", "Logistic"}

\* no batch has been handed to the layer and no buffer has been set
NoForward ==
    /\ inputs = Tensor2(0, 0, <<>>)
    /\ combinations = Tensor2(0, 0, <<>>)
    /\ activations = Tensor2(0, 0, <<>>)
    /\ activations_derivatives = Tensor2(0, 0, <<>>)
    /\ outputs = Tensor2(0, 0, <<>>)

\* no back propagation has been set
NoBackward ==
    /\ next_layer = [type |-> "Perceptron", activation_function |-> "Linear",
                     neurons_number |-> 0, synaptic_weights |-> Tensor2(0, 0, <<>>)]
    /\ next_activations_derivatives = Tensor2(0, 0, <<>>)
    /\ next_delta = Tensor2(0, 0, <<>>)
    /\ delta_row = <<>>
    /\ error_combinations_derivatives = Tensor2(0, 0, <<>>)
    /\ delta = Tensor2(0, 0, <<>>)
    /\ branch = "none"

\* no gradient buffer has been set and no activation function has been named
NoUtility ==
    /\ gradient = <<>>
    /\ tensor_arguments = <<>>
    /\ tensor_result = <<>>
    /\ iterations = <<>>
    /\ diagnostic = <<>>

NoExtension ==
    /\ biases_derivatives = <<>>
    /\ synaptic_weights_derivatives = Tensor2(0, 0, <<>>)
    /\ squared_errors_Jacobian = Tensor2(0, 0, <<>>)
    /\ new_activation_function_name = ""
    /\ quasi_newton_method = <<>>
    /\ optimization_data = <<>>
    /\ back_propagation = <<>>
    /\ training = <<>>
    /\ epoch_step = ""
    /\ NoUtility

InitLayer ==
    /\ debug = FALSE
    /\ \E i \in 0..MaxInputs, n \in 0..MaxNeurons : \E random \in Vectors(n + i * n) :
          /\ biases = memcpy(resize(1, n), random, 0)
          /\ synaptic_weights = memcpy(resize(i, n), random, n)
    /\ activation_function \in LayerActivationFunctions
    /\ op = "set"
    /\ error = "none"
    /\ parameters = <<>>
    /\ index = 0
    /\ NoForward
    /\ NoBackward
    /\ NoExtension

NextLayer ==
    \/ set_empty
    \/ \E i \in 0..MaxInputs, n \in 0..MaxNeurons, af \in LayerActivationFunctions :
          set_architecture(i, n, af)
    \/ \E n \in 0..MaxNeurons : \E b \in Matrices(1, n) : set_biases(b)
    \/ \E i \in 0..MaxInputs, n \in 0..MaxNeurons : \E w \in Matrices(i, n) :
          set_synaptic_weights(w)
    \/ \E idx \in 0..MaxIndex :
          \E p \in Vectors(idx + get_parameters_number(biases, synaptic_weights)) :
             set_parameters(p, idx)
    \/ \E value \in Offsets : set_parameters_constant(value)
    \/ set_parameters_random_call
    \/ \E af \in LayerActivationFunctions : set_activation_function(af)
    \/ get_parameters_call
    \/ round_trip

SpecLayer == InitLayer /\ [][NextLayer]_vars

----------------------------------------------------------------------------
(* Shape checks of tensor_utilities: TRUE when the check throws logic_error *)

check_size(vector, size) == Len(vector) # size

check_dimensions(matrix, rows_number, columns_number) ==
    matrix.d0 # rows_number \/ matrix.d1 # columns_number

check_columns_number_dimension_0(matrix, columns_number) == matrix.d0 # columns_number

check_columns_number(matrix, columns_number) == matrix.d1 # columns_number

----------------------------------------------------------------------------
(* Activation functions of the Layer base class, on integer combinations *)

ExactActivationFunctions == {"Linear", "Threshold", "SymmetricThreshold", "RectifiedLinear"}

linear(x) == x

threshold(x) ==
    [x EXCEPT !.data = Tuple([k \in 1..Size(x) |-> IF x.data[k] >= 0 THEN 1 ELSE 0], Size(x))]

symmetric_threshold(x) ==
    [x EXCEPT !.data = Tuple([k \in 1..Size(x) |-> IF x.data[k] >= 0 THEN 1 ELSE -1], Size(x))]

rectified_linear(x) ==
    [x EXCEPT !.data =
        Tuple([k \in 1..Size(x) |-> IF x.data[k] > 0 THEN x.data[k] ELSE 0], Size(x))]

linear_derivatives(x) ==
    [activations |-> linear(x), activations_derivatives |-> setConstant(x, 1)]

threshold_derivatives(x) ==
    [activations |-> threshold(x), activations_derivatives |-> setConstant(x, 0)]

symmetric_threshold_derivatives(x) ==
    [activations |-> symmetric_threshold(x), activations_derivatives |-> setConstant(x, 0)]

rectified_linear_derivatives(x) ==
    [activations |-> rectified_linear(x),
     activations_derivatives |->
        [x EXCEPT !.data = Tuple([k \in 1..Size(x) |-> IF x.data[k] > 0 THEN 1 ELSE 0],
                                 Size(x))]]

----------------------------------------------------------------------------
(* Perceptron layer: forward propagation *)

\* inputs.contract(synaptic_weights, A_B): cell (s, j) is the sum over i of
\* a(s, i) * b(i, j)
contract_A_B(a, b) ==
    Tensor2(a.d0, b.d1,
        Tuple([k \in 1..(a.d0 * b.d1) |->
                  LET s == (k - 1) % a.d0
                      j == (k - 1) \div a.d0
                  IN  SumTo([i \in 1..a.d1 |-> At(a, s, i - 1) * At(b, i - 1, j)], a.d1)],
              a.d0 * b.d1))

\* the fill_n loop: column i of the buffer is set to biases(i)
fill_biases(b, buffer, batch_samples_number, biases_number) ==
    [buffer EXCEPT !.data =
        Tuple([k \in 1..Size(buffer) |->
                  IF (k - 1) \div batch_samples_number < biases_number
                  THEN Linear(b, (k - 1) \div batch_samples_number)
                  ELSE buffer.data[k]],
              Size(buffer))]

accumulate(buffer, t) ==
    [buffer EXCEPT !.data = Tuple([k \in 1..Size(buffer) |-> buffer.data[k] + t.data[k]],
                                  Size(buffer))]

\* the OPENNN_DEBUG checks at the head of calculate_combinations
calculate_combinations_throws(in, w, buffer) ==
    /\ debug
    /\ \/ check_columns_number(in, get_inputs_number(synaptic_weights))
       \/ check_dimensions(w, get_inputs_number(synaptic_weights), get_neurons_number(biases))
       \/ check_dimensions(buffer, in.d0, get_neurons_number(biases))

\* the shapes for which the fill_n loop and the contraction stay inside
\* their tensors
calculate_combinations_defined(in, b, w, buffer) ==
    /\ in.d1 = w.d0
    /\ buffer.d0 = in.d0
    /\ buffer.d1 = w.d1
    /\ get_biases_number(biases) <= Size(b)
    /\ get_biases_number(biases) * in.d0 <= Size(buffer)

calculate_combinations_accumulating(in, b, w, buffer) ==
    accumulate(buffer, contract_A_B(in, w))

calculate_combinations(in, b, w, buffer) ==
    accumulate(fill_biases(b, buffer, in.d0, get_biases_number(biases)), contract_A_B(in, w))

\* the value of a transform that integers do not carry: the transform's name
\* and its argument
apply(transform, x) ==
    [x EXCEPT !.data = Tuple([k \in 1..Size(x) |-> <<transform, x.data[k]>>], Size(x))]

logistic(x) == apply("logistic", x)

hyperbolic_tangent(x) == apply("hyperbolic_tangent", x)

scaled_exponential_linear(x) == apply("scaled_exponential_linear", x)

soft_plus(x) == apply("soft_plus", x)

soft_sign(x) == apply("soft_sign", x)

hard_sigmoid(x) == apply("hard_sigmoid", x)

exponential_linear(x) == apply("exponential_linear", x)

logistic_derivatives(x) ==
    [activations |-> logistic(x),
     activations_derivatives |-> apply("logistic_derivative", x)]

hyperbolic_tangent_derivatives(x) ==
    [activations |-> hyperbolic_tangent(x),
     activations_derivatives |-> apply("hyperbolic_tangent_derivative", x)]

scaled_exponential_linear_derivatives(x) ==
    [activations |-> scaled_exponential_linear(x),
     activations_derivatives |-> apply("scaled_exponential_linear_derivative", x)]

soft_plus_derivatives(x) ==
    [activations |-> soft_plus(x),
     activations_derivatives |-> apply("soft_plus_derivative", x)]

soft_sign_derivatives(x) ==
    [activations |-> soft_sign(x),
     activations_derivatives |-> apply("soft_sign_derivative", x)]

hard_sigmoid_derivatives(x) ==
    [activations |-> hard_sigmoid(x),
     activations_derivatives |-> apply("hard_sigmoid_derivative", x)]

exponential_linear_derivatives(x) ==
    [activations |-> exponential_linear(x),
     activations_derivatives |-> apply("exponential_linear_derivative", x)]

calculate_activations_skipped(af, buffer) == buffer

calculate_activations(af, buffer) ==
    CASE af = "Linear" -> linear(buffer)
      [] af = "Logistic" -> logistic(buffer)
      [] af = "HyperbolicTangent" -> hyperbolic_tangent(buffer)
      [] af = "Threshold" -> threshold(buffer)
      [] af = "SymmetricThreshold" -> symmetric_threshold(buffer)
      [] af = "RectifiedLinear" -> rectified_linear(buffer)
      [] af = "ScaledExponentialLinear" -> scaled_exponential_linear(buffer)
      [] af = "SoftPlus" -> soft_plus(buffer)
      [] af = "SoftSign" -> soft_sign(buffer)
      [] af = "HardSigmoid" -> hard_sigmoid(buffer)
      [] af = "ExponentialLinear" -> exponential_linear(buffer)

\* the switch with the routines of SoftPlus and SoftSign exchanged
calculate_activations_derivatives_exchanged(af, buffer) ==
    CASE af = "Linear" -> linear_derivatives(buffer)
      [] af = "Logistic" -> logistic_derivatives(buffer)
      [] af = "HyperbolicTangent" -> hyperbolic_tangent_derivatives(buffer)
      [] af = "Threshold" -> threshold_derivatives(buffer)
      [] af = "SymmetricThreshold" -> symmetric_threshold_derivatives(buffer)
      [] af = "RectifiedLinear" -> rectified_linear_derivatives(buffer)
      [] af = "ScaledExponentialLinear" -> scaled_exponential_linear_derivatives(buffer)
      [] af = "SoftPlus" -> soft_sign_derivatives(buffer)
      [] af = "SoftSign" -> soft_plus_derivatives(buffer)
      [] af = "HardSigmoid" -> hard_sigmoid_derivatives(buffer)
      [] af = "ExponentialLinear" -> exponential_linear_derivatives(buffer)

calculate_activations_derivatives(af, buffer) ==
    CASE af = "Linear" -> linear_derivatives(buffer)
      [] af = "Logistic" -> logistic_derivatives(buffer)
      [] af = "HyperbolicTangent" -> hyperbolic_tangent_derivatives(buffer)
      [] af = "Threshold" -> threshold_derivatives(buffer)
      [] af = "SymmetricThreshold" -> symmetric_threshold_derivatives(buffer)
      [] af = "RectifiedLinear" -> rectified_linear_derivatives(buffer)
      [] af = "ScaledExponentialLinear" -> scaled_exponential_linear_derivatives(buffer)
      [] af = "SoftPlus" -> soft_plus_derivatives(buffer)
      [] af = "SoftSign" -> soft_sign_derivatives(buffer)
      [] af = "HardSigmoid" -> hard_sigmoid_derivatives(buffer)
      [] af = "ExponentialLinear" -> exponential_linear_derivatives(buffer)

\* memory that no operation has written: one of the patterns of Garbage
Garbage(n) == {Ramp(n, 1, b) : b \in {-1, 1}}

\* the outcome of an operation whose behaviour is undefined: the buffers it
\* writes hold arbitrary values
undefined_buffers ==
    LET size == Size(combinations) IN
    \E garbage \in Garbage(3 * size) :
        /\ error' = "undefined"
        /\ combinations' = [combinations EXCEPT !.data = SubSeq(garbage, 1, size)]
        /\ activations' = [activations EXCEPT !.data = SubSeq(garbage, size + 1, 2 * size)]
        /\ activations_derivatives' =
               [activations_derivatives EXCEPT !.data = SubSeq(garbage, 2 * size + 1, 3 * size)]

\* calculate_combinations followed by calculate_activations_derivatives, on
\* the buffers of the forward propagation
propagate(in, b, w) ==
    IF calculate_combinations_throws(in, w, combinations)
    THEN error' = "logic_error"
         /\ UNCHANGED <<combinations, activations, activations_derivatives>>
    ELSE IF ~calculate_combinations_defined(in, b, w, combinations)
    THEN undefined_buffers
    ELSE LET c == calculate_combinations(in, b, w, combinations)
             d == calculate_activations_derivatives(activation_function, c)
         IN  /\ error' = "none"
             /\ combinations' = c
             /\ activations' = d.activations
             /\ activations_derivatives' = d.activations_derivatives

\* a new batch: the caller's inputs and a forward propagation set for the
\* batch, whose buffers are allocated and not yet written
set_batch(in, garbage) ==
    LET n == get_neurons_number(biases)
        size == in.d0 * n
    IN  /\ inputs' = in
        /\ combinations' = Tensor2(in.d0, n, SubSeq(garbage, 1, size))
        /\ activations' = Tensor2(in.d0, n, SubSeq(garbage, size + 1, 2 * size))
        /\ activations_derivatives' = Tensor2(in.d0, n, SubSeq(garbage, 2 * size + 1, 3 * size))
        /\ outputs' = Tensor2(0, 0, <<>>)
        /\ op' = "set_batch"
        /\ error' = "none"
        /\ no_vector
        /\ UNCHANGED <<extension_vars, delta_vars, debug, layer_vars>>

calculate_combinations_call ==
    /\ op' = "calculate_combinations"
    /\ IF calculate_combinations_throws(inputs, synaptic_weights, combinations)
       THEN error' = "logic_error" /\ UNCHANGED combinations
       ELSE IF ~calculate_combinations_defined(inputs, biases, synaptic_weights, combinations)
       THEN error' = "undefined"
            /\ \E garbage \in Garbage(Size(combinations)) :
                  combinations' = [combinations EXCEPT !.data = garbage]
       ELSE error' = "none"
            /\ combinations' =
                   calculate_combinations(inputs, biases, synaptic_weights, combinations)
    /\ outputs' = Tensor2(0, 0, <<>>)
    /\ no_vector
    /\ UNCHANGED <<extension_vars, delta_vars, debug, layer_vars, inputs, activations, activations_derivatives>>

calculate_outputs ==
    LET batch_size == inputs.d0
        outputs_number == get_neurons_number(biases)
    IN
    /\ op' = "calculate_outputs"
    /\ IF debug /\ check_columns_number(inputs, get_inputs_number(synaptic_weights))
       THEN error' = "logic_error" /\ outputs' = Tensor2(0, 0, <<>>)
       ELSE \E garbage \in Garbage(batch_size * outputs_number) :
              LET buffer == Tensor2(batch_size, outputs_number, garbage) IN
              IF calculate_combinations_throws(inputs, synaptic_weights, buffer)
              THEN error' = "logic_error" /\ outputs' = Tensor2(0, 0, <<>>)
              ELSE IF ~calculate_combinations_defined(inputs, biases, synaptic_weights, buffer)
              THEN error' = "undefined" /\ outputs' = buffer
              ELSE error' = "none"
                   /\ outputs' =
                        calculate_activations(activation_function,
                            calculate_combinations(inputs, biases, synaptic_weights, buffer))
    /\ no_vector
    /\ UNCHANGED <<extension_vars, delta_vars, debug, layer_vars, inputs, combinations, activations,
                   activations_derivatives>>

forward_propagate ==
    /\ op' = "forward_propagate"
    /\ IF debug /\ check_columns_number(inputs, get_inputs_number(synaptic_weights))
       THEN error' = "logic_error"
            /\ UNCHANGED <<combinations, activations, activations_derivatives>>
       ELSE propagate(inputs, biases, synaptic_weights)
    /\ outputs' = Tensor2(0, 0, <<>>)
    /\ no_vector
    /\ UNCHANGED <<extension_vars, delta_vars, debug, layer_vars, inputs>>

\* the TensorMap views of the candidate vector: neurons_number biases, then
\* an inputs_number x neurons_number weight matrix
potential_biases(potential_parameters) ==
    Tensor2(get_neurons_number(biases), 1,
            SubSeq(potential_parameters, 1, get_neurons_number(biases)))

potential_synaptic_weights(potential_parameters) ==
    LET neurons_number == get_neurons_number(biases)
        inputs_number == get_inputs_number(synaptic_weights)
    IN  Tensor2(inputs_number, neurons_number,
                SubSeq(potential_parameters, neurons_number + 1,
                       neurons_number + inputs_number * neurons_number))

\* what forward_propagate(inputs, potential_parameters, buffer) does to the
\* buffers of the forward propagation
forward_propagate_potential_buffers(potential_parameters) ==
    /\ op' = "forward_propagate_potential"
    /\ IF debug /\ (\/ check_columns_number(inputs, get_inputs_number(synaptic_weights))
                    \/ check_size(potential_parameters,
                                  get_parameters_number(biases, synaptic_weights)))
       THEN error' = "logic_error"
            /\ UNCHANGED <<combinations, activations, activations_derivatives>>
       ELSE IF Len(potential_parameters) < get_parameters_number(biases, synaptic_weights)
       THEN undefined_buffers
       ELSE propagate(inputs, potential_biases(potential_parameters),
                      potential_synaptic_weights(potential_parameters))
    /\ outputs' = Tensor2(0, 0, <<>>)
    /\ parameters' = potential_parameters
    /\ index' = 0
    /\ UNCHANGED <<extension_vars, delta_vars, debug, inputs>>

forward_propagate_potential_storing(potential_parameters) ==
    /\ forward_propagate_potential_buffers(potential_parameters)
    /\ IF Len(potential_parameters) >= get_parameters_number(biases, synaptic_weights)
       THEN /\ biases' = set_parameters_biases(biases, synaptic_weights,
                                               potential_parameters, 0)
            /\ synaptic_weights' = set_parameters_weights(biases, synaptic_weights,
                                                          potential_parameters, 0)
       ELSE UNCHANGED <<biases, synaptic_weights>>
    /\ UNCHANGED activation_function

forward_propagate_potential(potential_parameters) ==
    /\ forward_propagate_potential_buffers(potential_parameters)
    /\ UNCHANGED layer_vars

----------------------------------------------------------------------------
(* Specification of forward propagation *)

Inputs(rows, columns) ==
    {Tensor2(rows, columns, Ramp(rows * columns, 1, b)) : b \in {-1, 0}}

LayerParameters(n) == {Ramp(n, 1, 0), Ramp(n, -1, 1)}

Candidates(n) == {Ramp(n, a, 1) : a \in {-1, 0}}

InitForward ==
    /\ debug \in BOOLEAN
    /\ \E i \in 1..MaxInputs, n \in 1..MaxNeurons : \E p \in LayerParameters(n + i * n) :
          /\ biases = memcpy(resize(1, n), p, 0)
          /\ synaptic_weights = memcpy(resize(i, n), p, n)
    /\ activation_function \in ExactActivationFunctions
    /\ op = "set"
    /\ error = "none"
    /\ parameters = <<>>
    /\ index = 0
    /\ NoForward
    /\ NoBackward
    /\ NoExtension

NextForward ==
    \/ \E batch \in 1..MaxBatch :
          \E columns \in {get_inputs_number(synaptic_weights),
                          get_inputs_number(synaptic_weights) + 1} :
             \E in \in Inputs(batch, columns) :
                \E garbage \in Garbage(3 * batch * get_neurons_number(biases)) :
                   set_batch(in, garbage)
    \/ calculate_combinations_call
    \/ calculate_outputs
    \/ forward_propagate
    \/ \E length \in {get_parameters_number(biases, synaptic_weights) - 1,
                      get_parameters_number(biases, synaptic_weights),
                      get_parameters_number(biases, synaptic_weights) + 1} :
          \E p \in Candidates(length) : forward_propagate_potential(p)

SpecForward == InitForward /\ [][NextForward]_vars

----------------------------------------------------------------------------
(* Back propagation: the delta of a hidden layer *)

Tensor3(d0, d1, d2, data) == [d0 |-> d0, d1 |-> d1, d2 |-> d2, data |-> data]

\* the kinds of layer that can follow; Scaling stands for every kind other
\* than Perceptron and Probabilistic
LayerType == {"Perceptron", "Probabilistic", "Scaling"}

ProbabilisticActivationFunctions == {"Softmax", "Logistic"}

\* contraction over the second index of both operands
contract_A_BT(a, b) ==
    Tensor2(a.d0, b.d0,
        Tuple([k \in 1..(a.d0 * b.d0) |->
                  LET s == (k - 1) % a.d0
                      i == (k - 1) \div a.d0
                  IN  SumTo([j \in 1..a.d1 |-> At(a, s, j - 1) * At(b, i, j - 1)], a.d1)],
              a.d0 * b.d0))

\* coefficient-wise product, the right operand read by linear index
cwise_product(a, data) ==
    [a EXCEPT !.data = Tuple([k \in 1..Size(a) |-> a.data[k] * data[k]], Size(a))]

\* row i of a matrix
chip(t, i) == Tuple([j \in 1..t.d1 |-> At(t, i, j - 1)], t.d1)

\* row i of a matrix replaced by a vector
set_chip(t, i, row) ==
    [t EXCEPT !.data = Tuple([k \in 1..Size(t) |->
                                 IF (k - 1) % t.d0 = i
                                 THEN row[((k - 1) \div t.d0) + 1]
                                 ELSE t.data[k]], Size(t))]

\* the n by n matrix mapped over the raw storage from the given offset
activations_derivatives_matrix_no_offset(data, offset, n) ==
    Tensor2(n, n, SubSeq(data, 1, n * n))

activations_derivatives_matrix(data, offset, n) ==
    Tensor2(n, n, SubSeq(data, offset + 1, offset + n * n))

\* contraction of a vector with a matrix over the matrix's first index
contract_AT_B(row, matrix) ==
    Tuple([k \in 1..matrix.d1 |->
              SumTo([j \in 1..matrix.d0 |-> row[j] * At(matrix, j - 1, k - 1)], matrix.d0)],
          matrix.d1)

\* the next layer is a perceptron layer: delta and derivatives have one shape
hidden_delta_perceptron_no_derivatives(nd, ad, w) == contract_A_BT(nd, w)

hidden_delta_perceptron(nd, ad, w) == contract_A_BT(cwise_product(nd, ad.data), w)

calculate_hidden_delta_perceptron ==
    /\ delta' = hidden_delta_perceptron(next_delta, next_activations_derivatives,
                                        next_layer.synaptic_weights)
    /\ error' = "none"
    /\ UNCHANGED <<delta_row, error_combinations_derivatives>>

\* delta * derivatives.reshape({rows, 1}): the shapes agree when the derivatives
\* hold one value per cell of delta and delta has one column
reshape_agrees(nd, ad, rows) == Len(ad.data) = rows /\ nd.d0 = rows /\ nd.d1 = 1

\* the product is evaluated by linear index when the shapes disagree and the
\* build has no Eigen assertions
reshape_readable(nd, ad, w) == Len(ad.data) >= Size(nd) /\ nd.d1 = w.d1

hidden_delta_reshape(nd, ad, w, rows) ==
    IF reshape_agrees(nd, ad, rows) /\ nd.d1 = w.d1
    THEN /\ delta' = contract_A_BT(cwise_product(nd, ad.data), w)
         /\ error' = "none"
    ELSE \/ /\ error' = "assertion"
            /\ UNCHANGED delta
         \/ /\ error' = "undefined"
            /\ IF reshape_readable(nd, ad, w)
               THEN delta' = contract_A_BT(cwise_product(nd, ad.data), w)
               ELSE \E garbage \in Garbage(Size(delta)) :
                       delta' = [delta EXCEPT !.data = garbage]

\* the three checks of the softmax branch, in the order of the code
softmax_throws_no_dimension_2(nd, ad, n) == nd.d1 # n \/ ad.d1 # n

softmax_throws(nd, ad, n) == nd.d1 # n \/ ad.d1 # n \/ ad.d2 # n

\* the loop over the samples, from sample i on: the scratch buffers after it
RECURSIVE softmax_loop(_, _, _, _, _)
softmax_loop(i, nd, ad, n, scratch) ==
    IF i >= nd.d0 THEN scratch
    ELSE LET step == n * n
             row == chip(nd, i)
             matrix == activations_derivatives_matrix(ad.data, i * step, n)
         IN  softmax_loop(i + 1, nd, ad, n,
                 [delta_row |-> row,
                  error_combinations_derivatives |->
                      set_chip(scratch.error_combinations_derivatives, i,
                               contract_AT_B(row, matrix))])

hidden_delta_softmax ==
    LET n == next_layer.neurons_number IN
    IF softmax_throws(next_delta, next_activations_derivatives, n)
    THEN /\ error' = "logic_error"
         /\ UNCHANGED <<delta, delta_row, error_combinations_derivatives>>
    ELSE LET scratch == softmax_loop(0, next_delta, next_activations_derivatives, n,
                            [delta_row |-> delta_row,
                             error_combinations_derivatives |-> error_combinations_derivatives])
         IN  /\ delta_row' = scratch.delta_row
             /\ error_combinations_derivatives' = scratch.error_combinations_derivatives
             /\ delta' = contract_A_BT(scratch.error_combinations_derivatives,
                                       next_layer.synaptic_weights)
             /\ error' = "none"

\* the formula chosen for a probabilistic next layer
probabilistic_branch_softmax_first(n, af) ==
    IF af = "Softmax" THEN "softmax" ELSE IF n = 1 THEN "binary" ELSE "multiple"

probabilistic_branch(n, af) ==
    IF n = 1 THEN "binary" ELSE IF af # "Softmax" THEN "multiple" ELSE "softmax"

calculate_hidden_delta_probabilistic ==
    LET chosen == probabilistic_branch(next_layer.neurons_number,
                                       next_layer.activation_function)
    IN  /\ branch' = chosen
        /\ CASE chosen = "binary" ->
                  /\ hidden_delta_reshape(next_delta, next_activations_derivatives,
                                          next_layer.synaptic_weights, delta.d0)
                  /\ UNCHANGED <<delta_row, error_combinations_derivatives>>
             [] chosen = "multiple" ->
                  /\ hidden_delta_reshape(next_delta, next_activations_derivatives,
                                          next_layer.synaptic_weights,
                                          next_activations_derivatives.d0)
                  /\ UNCHANGED <<delta_row, error_combinations_derivatives>>
             [] chosen = "softmax" -> hidden_delta_softmax

backward_frame ==
    UNCHANGED <<extension_vars, debug, layer_vars, parameters, index, forward_vars,
                next_layer, next_activations_derivatives, next_delta>>

calculate_hidden_delta ==
    /\ op' = "calculate_hidden_delta"
    /\ backward_frame
    /\ CASE next_layer.type = "Perceptron" ->
              /\ branch' = "perceptron"
              /\ calculate_hidden_delta_perceptron
         [] next_layer.type = "Probabilistic" -> calculate_hidden_delta_probabilistic
         [] OTHER ->
              /\ branch' = "none"
              /\ error' = "none"
              /\ UNCHANGED <<delta, delta_row, error_combinations_derivatives>>

calculate_hidden_delta_perceptron_lm ==
    /\ hidden_delta_reshape(next_delta, next_activations_derivatives,
                            next_layer.synaptic_weights, next_activations_derivatives.d0)
    /\ UNCHANGED <<delta_row, error_combinations_derivatives>>

calculate_hidden_delta_probabilistic_lm ==
    IF next_layer.activation_function = "Softmax"
    THEN /\ branch' = "softmax"
         /\ hidden_delta_softmax
    ELSE /\ branch' = "multiple"
         /\ hidden_delta_reshape(next_delta, next_activations_derivatives,
                                 next_layer.synaptic_weights, next_activations_derivatives.d0)
         /\ UNCHANGED <<delta_row, error_combinations_derivatives>>

calculate_hidden_delta_lm ==
    /\ op' = "calculate_hidden_delta_lm"
    /\ backward_frame
    /\ CASE next_layer.type = "Perceptron" ->
              /\ branch' = "perceptron"
              /\ calculate_hidden_delta_perceptron_lm
         [] next_layer.type = "Probabilistic" -> calculate_hidden_delta_probabilistic_lm
         [] OTHER ->
              /\ branch' = "none"
              /\ error' = "none"
              /\ UNCHANGED <<delta, delta_row, error_combinations_derivatives>>

\* the propagation structures of this layer and the next one are set for a
\* batch: the next layer's derivatives and delta are computed, this layer's
\* delta and the next layer's scratch buffers are allocated
set_back_propagation(next, ad, nd, garbage) ==
    LET batch == nd.d0
        neurons == get_neurons_number(biases)
        n == next.neurons_number
    IN  /\ next_layer' = next
        /\ next_activations_derivatives' = ad
        /\ next_delta' = nd
        /\ delta' = Tensor2(batch, neurons, SubSeq(garbage, 1, batch * neurons))
        /\ error_combinations_derivatives' =
               Tensor2(batch, n, SubSeq(garbage, batch * neurons + 1,
                                        batch * neurons + batch * n))
        /\ delta_row' = SubSeq(garbage, 1, n)
        /\ branch' = "none"
        /\ op' = "set_back_propagation"
        /\ error' = "none"
        /\ UNCHANGED <<extension_vars, debug, layer_vars, parameters, index, forward_vars>>

\* shapes of the next layer's buffers: as the next layer allocates them, or
\* with one of the dimensions checked by the softmax branch off by one
Mismatches == {"none", "delta", "dimension_1", "dimension_2"}

NextWeights(neurons, n) == Tensor2(neurons, n, Ramp(neurons * n, 1, 1))

NextLayers(neurons, n) ==
    {[type |-> "Perceptron", activation_function |-> "Linear", neurons_number |-> n,
      synaptic_weights |-> NextWeights(neurons, n)],
     [type |-> "Scaling", activation_function |-> "Linear", neurons_number |-> n,
      synaptic_weights |-> Tensor2(0, 0, <<>>)]}
    \cup
    {[type |-> "Probabilistic", activation_function |-> af, neurons_number |-> n,
      synaptic_weights |-> NextWeights(neurons, n)] :
         af \in ProbabilisticActivationFunctions}

NextDeltas(batch, columns) ==
    {Tensor2(batch, columns, Ramp(batch * columns, a, 1)) : a \in Slopes}

NextActivationsDerivatives(next, batch, mismatch) ==
    LET n == next.neurons_number
        d1 == IF mismatch = "dimension_1" THEN n + 1 ELSE n
        d2 == IF mismatch = "dimension_2" THEN n + 1 ELSE n
    IN  IF next.type = "Probabilistic"
        THEN {Tensor3(batch, d1, d2, Ramp(batch * d1 * d2, 1, -1))}
        ELSE {Tensor2(batch, n, Ramp(batch * n, 1, -1))}

InitBackward ==
    /\ debug = FALSE
    /\ \E n \in 1..MaxNeurons :
          /\ biases = memcpy(resize(1, n), Ramp(2 * n, 1, 0), 0)
          /\ synaptic_weights = memcpy(resize(1, n), Ramp(2 * n, 1, 0), n)
    /\ activation_function = "Linear"
    /\ op = "set"
    /\ error = "none"
    /\ parameters = <<>>
    /\ index = 0
    /\ NoForward
    /\ NoBackward
    /\ NoExtension

NextBackward ==
    \/ \E batch \in 1..MaxBatch, n \in 1..MaxNeurons, mismatch \in Mismatches :
          \E next \in NextLayers(get_neurons_number(biases), n) :
             /\ mismatch # "none" =>
                   (next.type = "Probabilistic" /\ next.activation_function = "Softmax")
             /\ \E nd \in NextDeltas(batch, IF mismatch = "delta" THEN n + 1 ELSE n) :
                   \E ad \in NextActivationsDerivatives(next, batch, mismatch) :
                      \E garbage \in Garbage(batch * (get_neurons_number(biases) + n) + n) :
                         set_back_propagation(next, ad, nd, garbage)
    \/ calculate_hidden_delta
    \/ calculate_hidden_delta_lm

SpecBackward == InitBackward /\ [][NextBackward]_vars

----------------------------------------------------------------------------
(* Back propagation: the error gradient and the squared errors Jacobian *)

\* sum over the first index: one value per column
sum_0(t) ==
    Tuple([n \in 1..t.d1 |-> SumTo([s \in 1..t.d0 |-> At(t, s - 1, n - 1)], t.d0)], t.d1)

\* contraction of two matrices over the first index of both
contract_AT_B_matrix(a, b) ==
    Tensor2(a.d1, b.d1,
        Tuple([k \in 1..(a.d1 * b.d1) |->
                  LET i == (k - 1) % a.d1
                      n == (k - 1) \div a.d1
                  IN  SumTo([s \in 1..a.d0 |-> At(a, s - 1, i) * At(b, s - 1, n)], a.d0)],
              a.d1 * b.d1))

\* the buffer is the previous content of biases_derivatives
biases_gradient_accumulating(d, ad, buffer) ==
    Tuple([n \in 1..Len(buffer) |-> buffer[n] + sum_0(cwise_product(d, ad.data))[n]],
          Len(buffer))

biases_gradient(d, ad, buffer) == sum_0(cwise_product(d, ad.data))

\* the buffer is the previous content of synaptic_weights_derivatives
synaptic_weights_gradient(in, d, ad, buffer) ==
    contract_AT_B_matrix(in, cwise_product(d, ad.data))

\* the structures the calls receive have been set for the batch
gradient_batch_set ==
    /\ inputs.d0 > 0
    /\ delta.d0 = inputs.d0
    /\ squared_errors_Jacobian.d0 = inputs.d0

calculate_error_gradient ==
    /\ gradient_batch_set
    /\ biases_derivatives' = biases_gradient(delta, activations_derivatives, biases_derivatives)
    /\ synaptic_weights_derivatives' =
           synaptic_weights_gradient(inputs, delta, activations_derivatives,
                                     synaptic_weights_derivatives)
    /\ op' = "calculate_error_gradient"
    /\ error' = "none"
    /\ UNCHANGED <<debug, layer_vars, parameters, index, forward_vars, delta_vars,
                   squared_errors_Jacobian, dispatch_vars, training_vars, utility_vars>>

\* the assignments of the three nested loops, in the order the code makes them
\* the weights' columns numbered neuron-fastest
RECURSIVE Jacobian_inputs_loop_neuron_fastest(_, _, _, _, _, _, _)
Jacobian_inputs_loop_neuron_fastest(in, d, ad, sample, neuron, input, parameter_index) ==
    IF input >= get_inputs_number(synaptic_weights) THEN <<>>
    ELSE <<[sample |-> sample,
            column |-> get_neurons_number(biases)
                       + input * get_neurons_number(biases) + neuron,
            value |-> At(d, sample, neuron) * At(ad, sample, neuron) * At(in, sample, input)]>>
         \o Jacobian_inputs_loop_neuron_fastest(in, d, ad, sample, neuron, input + 1,
                                                parameter_index + 1)

RECURSIVE Jacobian_inputs_loop(_, _, _, _, _, _, _)
Jacobian_inputs_loop(in, d, ad, sample, neuron, input, parameter_index) ==
    IF input >= get_inputs_number(synaptic_weights) THEN <<>>
    ELSE <<[sample |-> sample,
            column |-> get_neurons_number(biases) + parameter_index,
            value |-> At(d, sample, neuron) * At(ad, sample, neuron) * At(in, sample, input)]>>
         \o Jacobian_inputs_loop(in, d, ad, sample, neuron, input + 1, parameter_index + 1)

RECURSIVE Jacobian_neurons_loop(_, _, _, _, _, _)
Jacobian_neurons_loop(in, d, ad, sample, neuron, parameter_index) ==
    IF neuron >= get_neurons_number(biases) THEN <<>>
    ELSE Jacobian_inputs_loop(in, d, ad, sample, neuron, 0, parameter_index)
         \o <<[sample |-> sample,
               column |-> neuron,
               value |-> At(d, sample, neuron) * At(ad, sample, neuron)]>>
         \o Jacobian_neurons_loop(in, d, ad, sample, neuron + 1,
                                  parameter_index + get_inputs_number(synaptic_weights))

RECURSIVE Jacobian_samples_loop(_, _, _, _)
Jacobian_samples_loop(in, d, ad, sample) ==
    IF sample >= in.d0 THEN <<>>
    ELSE Jacobian_neurons_loop(in, d, ad, sample, 0, 0)
         \o Jacobian_samples_loop(in, d, ad, sample + 1)

\* the tensor after a sequence of assignments to its cells
RECURSIVE assign(_, _, _)
assign(t, writes, k) ==
    IF k > Len(writes) THEN t
    ELSE assign([t EXCEPT !.data[writes[k].sample + writes[k].column * t.d0 + 1] =
                              writes[k].value],
                writes, k + 1)

calculate_squared_errors_Jacobian_lm ==
    LET writes == Jacobian_samples_loop(inputs, delta, activations_derivatives, 0) IN
    /\ gradient_batch_set
    /\ squared_errors_Jacobian' = assign(squared_errors_Jacobian, writes, 1)
    /\ error' = "none"
    /\ op' = "calculate_squared_errors_Jacobian_lm"
    /\ UNCHANGED <<debug, layer_vars, parameters, index, forward_vars, delta_vars,
                   biases_derivatives, synaptic_weights_derivatives, dispatch_vars, training_vars, utility_vars>>

\* the propagation structures of this layer are set for a batch and the passes
\* before the gradient have run: inputs, derivatives and delta are computed,
\* the gradient buffers and the Jacobian are allocated
set_gradient_batch(in, ad, d, garbage) ==
    LET batch == in.d0
        i == get_inputs_number(synaptic_weights)
        n == get_neurons_number(biases)
    IN  /\ inputs' = in
        /\ activations_derivatives' = ad
        /\ delta' = d
        /\ biases_derivatives' = SubSeq(garbage, 1, n)
        /\ synaptic_weights_derivatives' = Tensor2(i, n, SubSeq(garbage, n + 1, n + i * n))
        /\ squared_errors_Jacobian' =
               Tensor2(batch, n + i * n, SubSeq(garbage, 1, batch * (n + i * n)))
        /\ op' = "set_gradient_batch"
        /\ error' = "none"
        /\ UNCHANGED <<debug, layer_vars, parameters, index, combinations, activations, outputs,
                       next_layer, next_activations_derivatives, next_delta, delta_row,
                       error_combinations_derivatives, branch, dispatch_vars, training_vars, utility_vars>>

Deltas(batch, n) == {Tensor2(batch, n, Ramp(batch * n, a, 1)) : a \in Slopes}

Derivatives(batch, n) == {Tensor2(batch, n, Ramp(batch * n, 1, -1))}

InitGradient ==
    /\ debug = FALSE
    /\ \E i \in 1..MaxInputs, n \in 1..MaxNeurons :
          /\ biases = memcpy(resize(1, n), Ramp(n + i * n, 1, 0), 0)
          /\ synaptic_weights = memcpy(resize(i, n), Ramp(n + i * n, 1, 0), n)
    /\ activation_function = "Linear"
    /\ op = "set"
    /\ error = "none"
    /\ parameters = <<>>
    /\ index = 0
    /\ NoForward
    /\ NoBackward
    /\ NoExtension

NextGradient ==
    \/ \E batch \in 1..MaxBatch :
          \E in \in Inputs(batch, get_inputs_number(synaptic_weights)) :
             \E ad \in Derivatives(batch, get_neurons_number(biases)) :
                \E d \in Deltas(batch, get_neurons_number(biases)) :
                   \E garbage \in Garbage((batch + 1) * get_parameters_number(biases, synaptic_weights)) :
                      set_gradient_batch(in, ad, d, garbage)
    \/ calculate_error_gradient
    \/ calculate_squared_errors_Jacobian_lm

SpecGradient == InitGradient /\ [][NextGradient]_vars

----------------------------------------------------------------------------
(* Perceptron layer: the activation function by name, and its two switches *)

\* the chain of comparisons with the first one, "Logistic", left out
activation_function_named_no_logistic(name) ==
    IF name = "HyperbolicTangent" THEN "HyperbolicTangent"
    ELSE IF name = "Threshold" THEN "Threshold"
    ELSE IF name = "SymmetricThreshold" THEN "SymmetricThreshold"
    ELSE IF name = "Linear" THEN "Linear"
    ELSE IF name = "RectifiedLinear" THEN "RectifiedLinear"
    ELSE IF name = "ScaledExponentialLinear" THEN "ScaledExponentialLinear"
    ELSE IF name = "SoftPlus" THEN "SoftPlus"
    ELSE IF name = "SoftSign" THEN "SoftSign"
    ELSE IF name = "HardSigmoid" THEN "HardSigmoid"
    ELSE IF name = "ExponentialLinear" THEN "ExponentialLinear"
    ELSE "logic_error"

\* the chain of comparisons: the enumerator a name selects, or the throw of
\* the final else
activation_function_named(name) ==
    IF name = "Logistic" THEN "Logistic"
    ELSE IF name = "HyperbolicTangent" THEN "HyperbolicTangent"
    ELSE IF name = "Threshold" THEN "Threshold"
    ELSE IF name = "SymmetricThreshold" THEN "SymmetricThreshold"
    ELSE IF name = "Linear" THEN "Linear"
    ELSE IF name = "RectifiedLinear" THEN "RectifiedLinear"
    ELSE IF name = "ScaledExponentialLinear" THEN "ScaledExponentialLinear"
    ELSE IF name = "SoftPlus" THEN "SoftPlus"
    ELSE IF name = "SoftSign" THEN "SoftSign"
    ELSE IF name = "HardSigmoid" THEN "HardSigmoid"
    ELSE IF name = "ExponentialLinear" THEN "ExponentialLinear"
    ELSE "logic_error"

set_activation_function_name(name) ==
    /\ IF activation_function_named(name) = "logic_error"
       THEN error' = "logic_error" /\ UNCHANGED activation_function
       ELSE error' = "none" /\ activation_function' = activation_function_named(name)
    /\ new_activation_function_name' = name
    /\ op' = "set_activation_function_name"
    /\ no_vector
    /\ UNCHANGED <<debug, biases, synaptic_weights, forward_vars, delta_vars, gradient_vars, training_vars, utility_vars>>

calculate_activations_throws(x, a) ==
    debug /\ (\/ check_columns_number(x, get_neurons_number(biases))
              \/ check_dimensions(a, x.d0, get_neurons_number(biases)))

calculate_activations_call ==
    /\ IF calculate_activations_throws(combinations, activations)
       THEN error' = "logic_error" /\ UNCHANGED activations
       ELSE error' = "none"
            /\ activations' = calculate_activations(activation_function, combinations)
    /\ op' = "calculate_activations"
    /\ new_activation_function_name' = ""
    /\ no_vector
    /\ UNCHANGED <<debug, layer_vars, inputs, combinations, activations_derivatives, outputs,
                   delta_vars, gradient_vars, training_vars, utility_vars>>

calculate_activations_derivatives_call ==
    /\ IF \/ calculate_activations_throws(combinations, activations)
          \/ debug /\ check_dimensions(activations_derivatives, combinations.d0,
                                       get_neurons_number(biases))
       THEN error' = "logic_error" /\ UNCHANGED <<activations, activations_derivatives>>
       ELSE LET result == calculate_activations_derivatives(activation_function, combinations)
            IN  /\ error' = "none"
                /\ activations' = result.activations
                /\ activations_derivatives' = result.activations_derivatives
    /\ op' = "calculate_activations_derivatives"
    /\ new_activation_function_name' = ""
    /\ no_vector
    /\ UNCHANGED <<debug, layer_vars, inputs, combinations, outputs, delta_vars, gradient_vars, training_vars, utility_vars>>

\* names that are not activation functions of the perceptron layer
UnknownNames == {"", "logistic", "Softmax"}

ActivationFunctionNames == ActivationFunction \cup UnknownNames

\* a layer of MaxNeurons neurons whose forward propagation holds the
\* combinations of a batch; the buffers of the activations are not yet written
InitActivation ==
    /\ debug \in BOOLEAN
    /\ biases = memcpy(resize(1, MaxNeurons), Ramp(2 * MaxNeurons, 1, 0), 0)
    /\ synaptic_weights = memcpy(resize(1, MaxNeurons), Ramp(2 * MaxNeurons, 1, 0), MaxNeurons)
    /\ activation_function \in {"HyperbolicTangent", "Linear"}
    /\ op = "set"
    /\ error = "none"
    /\ parameters = <<>>
    /\ index = 0
    /\ inputs = Tensor2(MaxBatch, 1, Ramp(MaxBatch, 1, 0))
    /\ combinations = Tensor2(MaxBatch, MaxNeurons, Ramp(MaxBatch * MaxNeurons, 1, -1))
    /\ \E garbage \in Garbage(2 * MaxBatch * MaxNeurons) :
          /\ activations = Tensor2(MaxBatch, MaxNeurons,
                                   SubSeq(garbage, 1, MaxBatch * MaxNeurons))
          /\ activations_derivatives =
                 Tensor2(MaxBatch, MaxNeurons,
                         SubSeq(garbage, MaxBatch * MaxNeurons + 1, 2 * MaxBatch * MaxNeurons))
    /\ outputs = Tensor2(0, 0, <<>>)
    /\ NoBackward
    /\ NoExtension

NextActivation ==
    \/ \E af \in ActivationFunction : set_activation_function(af)
    \/ \E name \in ActivationFunctionNames : set_activation_function_name(name)
    \/ calculate_activations_call
    \/ calculate_activations_derivatives_call

SpecActivation == InitActivation /\ [][NextActivation]_vars

----------------------------------------------------------------------------
(* Perceptron layer: changing the number of inputs or of neurons *)

\* Eigen's resize: the storage is kept when the number of cells is the same,
\* and is reallocated, its cells not written, when it differs
resized(t, rows, columns, garbage) ==
    IF rows * columns = Size(t)
    THEN Tensor2(rows, columns, t.data)
    ELSE Tensor2(rows, columns, SubSeq(garbage, 1, rows * columns))

set_inputs_number(new_inputs_number) ==
    LET neurons_number == get_neurons_number(biases) IN
    /\ \E garbage \in Garbage(neurons_number + new_inputs_number * neurons_number) :
          /\ biases' = resized(biases, 1, neurons_number, garbage)
          /\ synaptic_weights' =
                 resized(synaptic_weights, new_inputs_number, neurons_number, garbage)
    /\ op' = "set_inputs_number"
    /\ no_vector
    /\ layer_frame
    /\ UNCHANGED activation_function

\* a change of the number of neurons that resizes the biases only
set_neurons_number_biases_only(new_neurons_number) ==
    /\ \E garbage \in Garbage(new_neurons_number) :
          biases' = resized(biases, 1, new_neurons_number, garbage)
    /\ op' = "set_neurons_number"
    /\ no_vector
    /\ layer_frame
    /\ UNCHANGED <<synaptic_weights, activation_function>>

set_neurons_number(new_neurons_number) ==
    LET inputs_number == get_inputs_number(synaptic_weights) IN
    /\ \E garbage \in Garbage(new_neurons_number + inputs_number * new_neurons_number) :
          /\ biases' = resized(biases, 1, new_neurons_number, garbage)
          /\ synaptic_weights' =
                 resized(synaptic_weights, inputs_number, new_neurons_number, garbage)
    /\ op' = "set_neurons_number"
    /\ no_vector
    /\ layer_frame
    /\ UNCHANGED activation_function

InitResize ==
    /\ debug = FALSE
    /\ \E i \in 1..MaxInputs, n \in 1..MaxNeurons : \E random \in Vectors(n + i * n) :
          /\ biases = memcpy(resize(1, n), random, 0)
          /\ synaptic_weights = memcpy(resize(i, n), random, n)
    /\ activation_function = "HyperbolicTangent"
    /\ op = "set"
    /\ error = "none"
    /\ parameters = <<>>
    /\ index = 0
    /\ NoForward
    /\ NoBackward
    /\ NoExtension

NextResize ==
    \/ \E i \in 0..MaxInputs : set_inputs_number(i)
    \/ \E n \in 0..MaxNeurons : set_neurons_number(n)
    \/ \E value \in Offsets : set_parameters_constant(value)
    \/ set_parameters_random_call

SpecResize == InitResize /\ [][NextResize]_vars

----------------------------------------------------------------------------
(* Perceptron layer: every operation that sets a shape *)

\* PerceptronLayer(): set() on a new layer
PerceptronLayer_default ==
    /\ biases = Tensor2(0, 0, <<>>)
    /\ synaptic_weights = Tensor2(0, 0, <<>>)
    /\ activation_function = "HyperbolicTangent"

\* PerceptronLayer(inputs, neurons, activation): set(inputs, neurons, activation)
PerceptronLayer_architecture(new_inputs_number, new_neurons_number, new_activation_function) ==
    /\ \E random \in Vectors(new_neurons_number + new_inputs_number * new_neurons_number) :
          /\ biases = memcpy(resize(1, new_neurons_number), random, 0)
          /\ synaptic_weights =
                 memcpy(resize(new_inputs_number, new_neurons_number), random,
                        new_neurons_number)
    /\ activation_function = new_activation_function

InitShape ==
    /\ debug = FALSE
    /\ \/ PerceptronLayer_default
       \/ \E i \in 0..MaxInputs, n \in 0..MaxNeurons :
             PerceptronLayer_architecture(i, n, "Linear")
    /\ op = "set"
    /\ error = "none"
    /\ parameters = <<>>
    /\ index = 0
    /\ NoForward
    /\ NoBackward
    /\ NoExtension

NextShape ==
    \/ set_empty
    \/ \E i \in 0..MaxInputs, n \in 0..MaxNeurons : set_architecture(i, n, "Linear")
    \/ \E i \in 0..MaxInputs : set_inputs_number(i)
    \/ \E n \in 0..MaxNeurons : set_neurons_number(n)
    \/ \E p \in Vectors(get_parameters_number(biases, synaptic_weights)) :
          set_parameters(p, 0)
    \/ \E value \in Offsets : set_parameters_constant(value)
    \/ set_parameters_random_call
    \/ \E n \in 0..MaxNeurons : \E b \in Matrices(1, n) : set_biases(b)
    \/ \E i \in 0..MaxInputs, n \in 0..MaxNeurons : \E w \in Matrices(i, n) :
          set_synaptic_weights(w)

SpecShape == InitShape /\ [][NextShape]_vars

----------------------------------------------------------------------------
(* Quasi-Newton optimizer: exact arithmetic *)

\* the optimizer divides: its numbers are fractions <<numerator, denominator>>
\* in lowest terms with a positive denominator
Abs(n) == IF n < 0 THEN -n ELSE n

RECURSIVE GCD(_, _)
GCD(a, b) == IF b = 0 THEN a ELSE GCD(b, a % b)

Fraction(n, d) ==
    LET g == GCD(Abs(n), Abs(d))
    IN  IF d > 0 THEN <<n \div g, d \div g>> ELSE <<(-n) \div g, (-d) \div g>>

Whole(n) == <<n, 1>>

Plus(x, y) == Fraction(x[1] * y[2] + y[1] * x[2], x[2] * y[2])

Minus(x, y) == Fraction(x[1] * y[2] - y[1] * x[2], x[2] * y[2])

Times(x, y) == Fraction(x[1] * y[1], x[2] * y[2])

\* y is not zero
Over(x, y) == Fraction(x[1] * y[2], x[2] * y[1])

Negative(x) == x[1] < 0

RECURSIVE Sum(_, _)
Sum(f, n) == IF n = 0 THEN Whole(0) ELSE Plus(f[n], Sum(f, n - 1))

Zeros(n) == Tuple([k \in 1..n |-> Whole(0)], n)

is_zero(v) == \A k \in 1..Len(v) : v[k] = Whole(0)

dot(v, w) == Sum([k \in 1..Len(v) |-> Times(v[k], w[k])], Len(v))

difference(v, w) == Tuple([k \in 1..Len(v) |-> Minus(v[k], w[k])], Len(v))

scaled(v, x) == Tuple([k \in 1..Len(v) |-> Times(v[k], x)], Len(v))

added(v, w) == Tuple([k \in 1..Len(v) |-> Plus(v[k], w[k])], Len(v))

\* a product whose cell (i, j) is vector(i) * other_vector(i)
kronecker_product_same_index(vector, other_vector) ==
    Tensor2(Len(vector), Len(vector),
        Tuple([k \in 1..(Len(vector) * Len(vector)) |->
                  Times(vector[((k - 1) % Len(vector)) + 1],
                        other_vector[((k - 1) % Len(vector)) + 1])],
              Len(vector) * Len(vector)))

\* direct(size, size) with size the size of vector: cell (i, j) is
\* vector(i) * other_vector(j)
kronecker_product(vector, other_vector) ==
    Tensor2(Len(vector), Len(vector),
        Tuple([k \in 1..(Len(vector) * Len(vector)) |->
                  Times(vector[((k - 1) % Len(vector)) + 1],
                        other_vector[((k - 1) \div Len(vector)) + 1])],
              Len(vector) * Len(vector)))

identity(n) ==
    Tensor2(n, n, Tuple([k \in 1..(n * n) |->
                            IF (k - 1) % n = (k - 1) \div n THEN Whole(1) ELSE Whole(0)],
                        n * n))

zero_matrix(n) == Tensor2(n, n, Zeros(n * n))

\* the matrix times the vector
product(h, v) ==
    Tuple([i \in 1..h.d0 |-> Sum([j \in 1..h.d1 |-> Times(At(h, i - 1, j - 1), v[j])], h.d1)],
          h.d0)

matrix_added(a, b) == [a EXCEPT !.data = added(a.data, b.data)]

matrix_difference(a, b) == [a EXCEPT !.data = difference(a.data, b.data)]

matrix_scaled(a, x) == [a EXCEPT !.data = scaled(a.data, x)]

----------------------------------------------------------------------------
(* Quasi-Newton optimizer: the training run *)

InverseHessianApproximationMethod == {"DFP", "BFGS"}

StoppingCondition ==
    {"LossGoal", "MinimumLossDecrease", "MaximumEpochs", "MaximumTime",
     "MaximumSelectionFailures", "ZeroLearningRate"}

\* what a number that was never written may hold
Uninitialized == {Whole(0), Whole(1)}

Filled(n, x) == Tuple([k \in 1..n |-> x], n)

\* the fields of QuasiNewtonMehtodData that set does not touch
untouched(garbage) ==
    [ epoch |-> 0, training_slope |-> garbage, learning_rate |-> Whole(0),
      old_learning_rate |-> Whole(0) ]

\* a set that gives the matrices one column only
set_one_column(parameters_number, garbage) ==
    untouched(garbage) @@
    [ old_parameters          |-> Filled(parameters_number, garbage),
      parameters_difference   |-> Filled(parameters_number, garbage),
      potential_parameters    |-> Filled(parameters_number, garbage),
      parameters_increment    |-> Filled(parameters_number, garbage),
      old_gradient            |-> Zeros(parameters_number),
      gradient_difference     |-> Filled(parameters_number, garbage),
      inverse_hessian         |-> Tensor2(parameters_number, 1, Zeros(parameters_number)),
      old_inverse_hessian     |-> Tensor2(parameters_number, 1, Zeros(parameters_number)),
      training_direction      |-> Filled(parameters_number, garbage),
      old_inverse_hessian_dot_gradient_difference |-> Filled(parameters_number, garbage) ]

\* QuasiNewtonMehtodData::set: every buffer gets its size, and only old_gradient
\* and the two matrices are zeroed
set(parameters_number, garbage) ==
    untouched(garbage) @@
    [ old_parameters          |-> Filled(parameters_number, garbage),
      parameters_difference   |-> Filled(parameters_number, garbage),
      potential_parameters    |-> Filled(parameters_number, garbage),
      parameters_increment    |-> Filled(parameters_number, garbage),
      old_gradient            |-> Zeros(parameters_number),
      gradient_difference     |-> Filled(parameters_number, garbage),
      inverse_hessian         |-> zero_matrix(parameters_number),
      old_inverse_hessian     |-> zero_matrix(parameters_number),
      training_direction      |-> Filled(parameters_number, garbage),
      old_inverse_hessian_dot_gradient_difference |-> Filled(parameters_number, garbage) ]

\* the guard of the update: nothing to divide by, or nothing recorded yet
update_undefined_after_first_epoch(epoch, dp, dg) ==
    is_zero(dp) \/ is_zero(dg) \/ dot(dp, dg) = Whole(0)

update_undefined_no_dot(epoch, dp, dg) == epoch = 0 \/ is_zero(dp) \/ is_zero(dg)

update_undefined(epoch, dp, dg) ==
    epoch = 0 \/ is_zero(dp) \/ is_zero(dg) \/ dot(dp, dg) = Whole(0)

\* H + (dp (x) dp)/(dp.dg) - (H dg) (x) (H dg)/(dg.H.dg)
calculate_DFP_inverse_hessian(h, dp, dg) ==
    LET hdg == product(h, dg)
    IN  matrix_difference(
            matrix_added(h, matrix_scaled(kronecker_product(dp, dp), Over(Whole(1), dot(dp, dg)))),
            matrix_scaled(kronecker_product(hdg, hdg), Over(Whole(1), dot(dg, hdg))))

\* H + (1 + (dg.H.dg)/(dp.dg)) (dp (x) dp)/(dp.dg) - (H dg (x) dp + dp (x) H dg)/(dp.dg)
calculate_BFGS_inverse_hessian(h, dp, dg) ==
    LET hdg == product(h, dg)
        pg  == dot(dp, dg)
    IN  matrix_difference(
            matrix_added(h, matrix_scaled(kronecker_product(dp, dp),
                Over(Plus(Whole(1), Over(dot(dg, hdg), pg)), pg))),
            matrix_scaled(matrix_added(kronecker_product(hdg, dp), kronecker_product(dp, hdg)), Over(Whole(1), pg)))

\* the denominators the update of the method divides by
denominators(method, h, dp, dg) ==
    IF method = "DFP" THEN {dot(dp, dg), dot(dg, product(h, dg))} ELSE {dot(dp, dg)}

\* the new approximation, and whether a division by zero took place on the way;
\* a division by zero gives entries that are not finite, and the update then
\* degrades to a reset
inverse_hessian_approximation(method, epoch, h, dp, dg) ==
    IF update_undefined(epoch, dp, dg)
    THEN [inverse_hessian |-> identity(Len(dg)), division_by_zero |-> FALSE]
    ELSE IF Whole(0) \in denominators(method, h, dp, dg)
    THEN [inverse_hessian |-> identity(Len(dg)), division_by_zero |-> TRUE]
    ELSE [inverse_hessian  |-> IF method = "DFP"
                               THEN calculate_DFP_inverse_hessian(h, dp, dg)
                               ELSE calculate_BFGS_inverse_hessian(h, dp, dg),
          division_by_zero |-> FALSE]

\* d = -H g, or steepest descent with a fresh H when that is no descent direction
training_direction_no_reset(h, g) ==
    [training_direction |-> scaled(product(h, g), Whole(-1)),
     training_slope     |-> Minus(Whole(0), dot(product(h, g), g)),
     inverse_hessian    |-> h]

training_direction(h, g) ==
    IF Negative(Minus(Whole(0), dot(product(h, g), g)))
    THEN [training_direction |-> scaled(product(h, g), Whole(-1)),
          training_slope     |-> Minus(Whole(0), dot(product(h, g), g)),
          inverse_hessian    |-> h]
    ELSE [training_direction |-> scaled(g, Whole(-1)),
          training_slope     |-> Minus(Whole(0), dot(product(h, g), g)),
          inverse_hessian    |-> identity(Len(g))]

maximum_epochs_exceeded(epoch, maximum_epochs_number) == epoch > maximum_epochs_number

maximum_epochs_reached(epoch, maximum_epochs_number) == epoch >= maximum_epochs_number

\* the criteria at the end of an epoch, the first that holds wins
stopping_condition_epochs_first(q, loss, old_loss, epoch, elapsed_time, selection_failures, learning_rate) ==
    IF      maximum_epochs_reached(epoch, q.maximum_epochs_number) THEN "MaximumEpochs"
    ELSE IF loss <= q.training_loss_goal THEN "LossGoal"
    ELSE IF old_loss - loss <= q.minimum_loss_decrease THEN "MinimumLossDecrease"
    ELSE IF elapsed_time >= q.maximum_time THEN "MaximumTime"
    ELSE IF selection_failures >= q.maximum_selection_failures THEN "MaximumSelectionFailures"
    ELSE IF learning_rate = Whole(0) THEN "ZeroLearningRate"
    ELSE ""

stopping_condition(q, loss, old_loss, epoch, elapsed_time, selection_failures, learning_rate) ==
    IF      loss <= q.training_loss_goal THEN "LossGoal"
    ELSE IF old_loss - loss <= q.minimum_loss_decrease THEN "MinimumLossDecrease"
    ELSE IF maximum_epochs_reached(epoch, q.maximum_epochs_number) THEN "MaximumEpochs"
    ELSE IF elapsed_time >= q.maximum_time THEN "MaximumTime"
    ELSE IF selection_failures >= q.maximum_selection_failures THEN "MaximumSelectionFailures"
    ELSE IF learning_rate = Whole(0) THEN "ZeroLearningRate"
    ELSE ""

\* an epoch is under way or may start
running_ever(t) == t.state \in {"Running", "Stopped"}

running(t) == t.state = "Running"

training_frame ==
    /\ op' = "perform_training"
    /\ UNCHANGED <<debug, layer_vars, error, parameters, index, forward_vars, delta_vars,
                   gradient_vars, dispatch_vars, utility_vars, quasi_newton_method>>

MaxMagnitude == 16

\* the entries of the matrix are fractions of numbers up to MaxMagnitude
bounded(h) ==
    \A k \in 1..Len(h.data) :
        Abs(h.data[k][1]) <= MaxMagnitude /\ h.data[k][2] <= MaxMagnitude

\* step 1: the loss index gives the gradient at the current parameters, and
\* says whether the selection error went up; the run is followed for as long
\* as the approximation stays bounded
calculate_gradient(g, selection_error_increased) ==
    /\ running(training) /\ epoch_step = "gradient"
    /\ bounded(optimization_data.inverse_hessian)
    /\ back_propagation' = [back_propagation EXCEPT !.gradient = g]
    /\ optimization_data' =
          [optimization_data EXCEPT
              !.gradient_difference = difference(g, optimization_data.old_gradient)]
    /\ training' = [training EXCEPT
                       !.selection_failures =
                           IF selection_error_increased THEN @ + 1 ELSE 0]
    /\ epoch_step' = "inverse_hessian"
    /\ training_frame

\* step 2
calculate_inverse_hessian_approximation ==
    /\ running(training) /\ epoch_step = "inverse_hessian"
    /\ LET update == inverse_hessian_approximation(
                         quasi_newton_method.inverse_hessian_approximation_method,
                         optimization_data.epoch,
                         optimization_data.inverse_hessian,
                         optimization_data.parameters_difference,
                         optimization_data.gradient_difference)
       IN  /\ optimization_data' =
                 [optimization_data EXCEPT
                     !.old_inverse_hessian = optimization_data.inverse_hessian,
                     !.inverse_hessian = update.inverse_hessian]
           /\ training' = [training EXCEPT !.division_by_zero = update.division_by_zero]
    /\ epoch_step' = "direction"
    /\ UNCHANGED back_propagation
    /\ training_frame

\* step 3
calculate_training_direction ==
    /\ running(training) /\ epoch_step = "direction"
    /\ LET direction == training_direction(optimization_data.inverse_hessian,
                                           back_propagation.gradient)
       IN  optimization_data' =
               [optimization_data EXCEPT
                   !.training_direction = direction.training_direction,
                   !.training_slope = direction.training_slope,
                   !.inverse_hessian = direction.inverse_hessian]
    /\ epoch_step' = "learning_rate"
    /\ UNCHANGED <<back_propagation, training>>
    /\ training_frame

\* step 4: the learning rate algorithm returns a rate and the loss it reached;
\* a zero rate leaves the loss where it was, and no rate makes it worse
calculate_learning_rate(rate, loss) ==
    /\ running(training) /\ epoch_step = "learning_rate"
    /\ loss <= back_propagation.loss
    /\ rate = Whole(0) => loss = back_propagation.loss
    /\ optimization_data' =
          [optimization_data EXCEPT !.old_learning_rate = optimization_data.learning_rate,
                                    !.learning_rate = rate]
    /\ back_propagation' = [back_propagation EXCEPT !.loss = loss]
    /\ training' = [training EXCEPT !.old_loss = back_propagation.loss]
    /\ epoch_step' = "parameters"
    /\ training_frame

\* step 5
update_parameters ==
    /\ running(training) /\ epoch_step = "parameters"
    /\ LET increment == scaled(optimization_data.training_direction,
                               optimization_data.learning_rate)
       IN  /\ back_propagation' =
                 [back_propagation EXCEPT !.parameters = added(@, increment)]
           /\ optimization_data' =
                 [optimization_data EXCEPT
                     !.old_parameters = back_propagation.parameters,
                     !.parameters_difference = increment,
                     !.parameters_increment = increment,
                     !.old_gradient = back_propagation.gradient,
                     !.epoch = @ + 1]
    /\ training' = [training EXCEPT !.elapsed_time = @ + 1]
    /\ epoch_step' = "stopping"
    /\ training_frame

\* step 6
evaluate_stopping_criteria ==
    /\ running(training) /\ epoch_step = "stopping"
    /\ LET condition == stopping_condition(quasi_newton_method, back_propagation.loss,
                                           training.old_loss, optimization_data.epoch,
                                           training.elapsed_time,
                                           training.selection_failures,
                                           optimization_data.learning_rate)
       IN  training' = IF condition = ""
                       THEN training
                       ELSE [training EXCEPT !.state = "Stopped",
                                             !.stopping_condition = condition]
    /\ epoch_step' = "gradient"
    /\ UNCHANGED <<back_propagation, optimization_data>>
    /\ training_frame

MaxEpochs == 2

MaxLoss == 2

\* large enough never to be reached
Permissive == MaxEpochs + MaxLoss + 1

\* no layer is looked at
no_layer ==
    /\ NoForward /\ NoBackward
    /\ biases_derivatives = <<>>
    /\ synaptic_weights_derivatives = Tensor2(0, 0, <<>>)
    /\ squared_errors_Jacobian = Tensor2(0, 0, <<>>)
    /\ new_activation_function_name = ""
    /\ debug = FALSE
    /\ biases = resize(1, 0) /\ synaptic_weights = resize(0, 0)
    /\ activation_function = "HyperbolicTangent"
    /\ error = "none" /\ parameters = <<>> /\ index = 0

\* only the optimizer is looked at
optimizer_only == no_layer /\ NoUtility

\* only a function of tensor_utilities.cpp is looked at
utility_only ==
    /\ no_layer
    /\ quasi_newton_method = <<>>
    /\ optimization_data = <<>>
    /\ back_propagation = <<>>
    /\ training = <<>>
    /\ epoch_step = ""

\* the start of perform_training on a network of parameters_number parameters
start_training(parameters_number) ==
    /\ optimizer_only
    /\ op = "perform_training"
    /\ \E garbage \in Uninitialized :
          optimization_data = set(parameters_number, garbage)
    /\ back_propagation = [parameters |-> Zeros(parameters_number),
                           gradient   |-> Zeros(parameters_number),
                           loss       |-> MaxLoss]
    /\ epoch_step = "gradient"
    /\ training = [state |-> "Running", stopping_condition |-> "",
                   old_loss |-> MaxLoss, elapsed_time |-> 0, selection_failures |-> 0,
                   division_by_zero |-> FALSE]

\* every combination of strict and permissive thresholds
InitTraining ==
    /\ start_training(1)
    /\ \E goal \in {-1, 1}, decrease \in {-1, 0}, epochs \in 1..MaxEpochs,
          time \in {2, Permissive}, failures \in {1, Permissive} :
          quasi_newton_method =
              [inverse_hessian_approximation_method |-> "BFGS",
               training_loss_goal         |-> goal,
               minimum_loss_decrease      |-> decrease,
               maximum_epochs_number      |-> epochs,
               maximum_time               |-> time,
               maximum_selection_failures |-> failures,
               loss_index_pointer         |-> "loss_index"]

NextTraining ==
    \/ \E increased \in BOOLEAN : calculate_gradient(<<Whole(1)>>, increased)
    \/ calculate_inverse_hessian_approximation
    \/ calculate_training_direction
    \/ \E rate \in {Whole(0), Whole(1)}, loss \in 0..MaxLoss :
          calculate_learning_rate(rate, loss)
    \/ update_parameters
    \/ evaluate_stopping_criteria

SpecTraining == InitTraining /\ [][NextTraining]_vars

\* the step after each step of the epoch
following ==
    [s \in {"gradient", "inverse_hessian", "direction", "learning_rate", "parameters",
            "stopping"} |->
        CASE s = "gradient"        -> "inverse_hessian"
          [] s = "inverse_hessian" -> "direction"
          [] s = "direction"       -> "learning_rate"
          [] s = "learning_rate"   -> "parameters"
          [] s = "parameters"      -> "stopping"
          [] s = "stopping"        -> "gradient"]

\* what every step of NextTraining does to the position of a running loop
advance == running(training) /\ epoch_step' = following[epoch_step]

\* perform_training is one sequential loop that nothing suspends: while it is
\* running, its next step is taken
SpecTrainingFair == SpecTraining /\ WF_epoch_step(advance)

\* only the epochs bound the run, and both methods and more directions are met
InitDirection ==
    /\ start_training(2)
    /\ \E method \in InverseHessianApproximationMethod :
          quasi_newton_method =
              [inverse_hessian_approximation_method |-> method,
               training_loss_goal         |-> -1,
               minimum_loss_decrease      |-> -1,
               maximum_epochs_number      |-> MaxEpochs + 1,
               maximum_time               |-> Permissive + 1,
               maximum_selection_failures |-> Permissive + 1,
               loss_index_pointer         |-> "loss_index"]

Gradients ==
    {<<Whole(0), Whole(0)>>, <<Whole(1), Whole(0)>>, <<Whole(0), Whole(1)>>,
     <<Whole(1), Whole(1)>>, <<Whole(-1), Whole(2)>>}

NextDirection ==
    \/ \E g \in Gradients : calculate_gradient(g, FALSE)
    \/ calculate_inverse_hessian_approximation
    \/ calculate_training_direction
    \/ \E rate \in {Whole(0), Whole(1)} : calculate_learning_rate(rate, back_propagation.loss)
    \/ update_parameters
    \/ evaluate_stopping_criteria

SpecDirection == InitDirection /\ [][NextDirection]_vars

----------------------------------------------------------------------------
(* Quasi-Newton optimizer: one update of the inverse Hessian *)

MaxEntry == 1

\* the symmetric 2 x 2 matrices of whole numbers up to MaxEntry
SymmetricMatrices ==
    {Tensor2(2, 2, <<Whole(a), Whole(b), Whole(b), Whole(c)>>) :
        a \in -MaxEntry..MaxEntry, b \in -MaxEntry..MaxEntry, c \in -MaxEntry..MaxEntry}

Differences == {<<Whole(a), Whole(b)>> : a \in -1..1, b \in -1..1}

\* a run about to update the approximation h of its second epoch
InitUpdate ==
    /\ optimizer_only
    /\ op = "perform_training"
    /\ \E method \in InverseHessianApproximationMethod :
          quasi_newton_method =
              [inverse_hessian_approximation_method |-> method,
               training_loss_goal         |-> -1,
               minimum_loss_decrease      |-> -1,
               maximum_epochs_number      |-> MaxEpochs,
               maximum_time               |-> Permissive,
               maximum_selection_failures |-> Permissive,
               loss_index_pointer         |-> "loss_index"]
    /\ \E h \in SymmetricMatrices, dp \in Differences, dg \in Differences :
          optimization_data =
              [set(2, Whole(0)) EXCEPT !.epoch = 1,
                                       !.inverse_hessian = h,
                                       !.parameters_difference = dp,
                                       !.gradient_difference = dg]
    /\ back_propagation = [parameters |-> Zeros(2), gradient |-> Zeros(2),
                           loss |-> MaxLoss]
    /\ epoch_step = "inverse_hessian"
    /\ training = [state |-> "Running", stopping_condition |-> "",
                   old_loss |-> MaxLoss, elapsed_time |-> 1, selection_failures |-> 0,
                   division_by_zero |-> FALSE]

NextUpdate == calculate_inverse_hessian_approximation

SpecUpdate == InitUpdate /\ [][NextUpdate]_vars

----------------------------------------------------------------------------
(* Quasi-Newton optimizer: construction and the start of a run *)

LossIndexPointers == {"nullptr", "loss_index"}

\* the optimizer as its constructors leave it: only the epochs bound a run
constructed(new_loss_index_pointer) ==
    [inverse_hessian_approximation_method |-> "BFGS",
     training_loss_goal         |-> -1,
     minimum_loss_decrease      |-> -1,
     maximum_epochs_number      |-> MaxEpochs,
     maximum_time               |-> Permissive,
     maximum_selection_failures |-> Permissive,
     loss_index_pointer         |-> new_loss_index_pointer]

\* QuasiNewtonMethod()
default_constructor == constructed("nullptr")

\* QuasiNewtonMethod(LossIndex*)
loss_index_constructor(new_loss_index_pointer) == constructed(new_loss_index_pointer)

has_loss_index(q) == q.loss_index_pointer # "nullptr"

\* a check that lets every optimizer through
check_fails_never(q) == FALSE

\* training needs a loss index
check_fails(q) == ~has_loss_index(q)

\* QuasiNewtonMehtodData(): nothing has a size yet
no_optimization_data ==
    untouched(Whole(0)) @@
    [ old_parameters          |-> <<>>,
      parameters_difference   |-> <<>>,
      potential_parameters    |-> <<>>,
      parameters_increment    |-> <<>>,
      old_gradient            |-> <<>>,
      gradient_difference     |-> <<>>,
      inverse_hessian         |-> Tensor2(0, 0, <<>>),
      old_inverse_hessian     |-> Tensor2(0, 0, <<>>),
      training_direction      |-> <<>>,
      old_inverse_hessian_dot_gradient_difference |-> <<>> ]

construction_frame ==
    UNCHANGED <<debug, layer_vars, parameters, index, forward_vars, delta_vars,
                gradient_vars, dispatch_vars, utility_vars>>

set_loss_index_pointer(new_loss_index_pointer) ==
    /\ training.state = "Idle"
    /\ quasi_newton_method' =
          [quasi_newton_method EXCEPT !.loss_index_pointer = new_loss_index_pointer]
    /\ op' = "set_loss_index_pointer" /\ error' = "none"
    /\ UNCHANGED <<optimization_data, back_propagation, training, epoch_step>>
    /\ construction_frame

\* the start of perform_training: without a loss index it throws before
\* anything else is done, with one it sets the optimization data up and the
\* first epoch begins
perform_training(garbage) ==
    /\ training.state = "Idle"
    /\ op' = "perform_training"
    /\ IF check_fails(quasi_newton_method)
       THEN /\ error' = "logic_error"
            /\ UNCHANGED <<optimization_data, training, epoch_step>>
       ELSE /\ error' = "none"
            /\ optimization_data' = set(Len(back_propagation.parameters), garbage)
            /\ training' = [training EXCEPT !.state = "Running"]
            /\ epoch_step' = "gradient"
    /\ UNCHANGED <<quasi_newton_method, back_propagation>>
    /\ construction_frame

\* an optimizer from either constructor, and a network of one parameter
InitConstruction ==
    /\ optimizer_only
    /\ op = "QuasiNewtonMethod"
    /\ quasi_newton_method \in
          {default_constructor} \cup
          {loss_index_constructor(pointer) : pointer \in LossIndexPointers}
    /\ optimization_data = no_optimization_data
    /\ back_propagation = [parameters |-> Zeros(1), gradient |-> Zeros(1),
                           loss |-> MaxLoss]
    /\ epoch_step = ""
    /\ training = [state |-> "Idle", stopping_condition |-> "",
                   old_loss |-> MaxLoss, elapsed_time |-> 0, selection_failures |-> 0,
                   division_by_zero |-> FALSE]

NextConstruction ==
    \/ \E pointer \in LossIndexPointers : set_loss_index_pointer(pointer)
    \/ \E garbage \in Uninitialized : perform_training(garbage)
    \/ NextTraining

SpecConstruction == InitConstruction /\ [][NextConstruction]_vars

----------------------------------------------------------------------------
(* Tensor utilities: the L2 norm and its derivatives *)

MaxSize == 3
MaxComponent == 4

\* UNCHANGED for a utility call: it touches its own tensors only
utility_frame ==
    UNCHANGED <<debug, layer_vars, parameters, index, forward_vars, delta_vars,
                gradient_vars, dispatch_vars, training_vars, gradient>>

\* the square root of a whole square
sqrt(x) == Whole(CHOOSE r \in 0..x[1] : r * r = x[1])

HasRoot(x) == x[2] = 1 /\ x[1] >= 0 /\ \E r \in 0..x[1] : r * r = x[1]

\* vector.square().sum().sqrt()
l2_norm(vector) == sqrt(dot(vector, vector))

\* norm < NUMERIC_LIMITS_MIN: the fractions of this model are zero or far above
\* the smallest positive float
below_NUMERIC_LIMITS_MIN(norm) == norm[1] <= 0

\* a gradient that is the vector itself
l2_norm_gradient_not_divided(vector) ==
    IF below_NUMERIC_LIMITS_MIN(l2_norm(vector))
    THEN Zeros(Len(vector))
    ELSE vector

\* gradient.setZero() and return when the norm is zero, else vector / norm
l2_norm_gradient(vector) ==
    IF below_NUMERIC_LIMITS_MIN(l2_norm(vector))
    THEN Zeros(Len(vector))
    ELSE scaled(vector, Over(Whole(1), l2_norm(vector)))

\* a Hessian divided by the square of the norm
l2_norm_hessian_norm_squared(vector) ==
    LET norm == l2_norm(vector)
    IN  IF below_NUMERIC_LIMITS_MIN(norm)
        THEN zero_matrix(Len(vector))
        ELSE matrix_scaled(kronecker_product(vector, vector),
                           Over(Whole(1), Times(norm, norm)))

\* hessian.setZero() and return when the norm is zero, else
\* kronecker_product(vector, vector) / (norm * norm * norm)
l2_norm_hessian(vector) ==
    LET norm == l2_norm(vector)
    IN  IF below_NUMERIC_LIMITS_MIN(norm)
        THEN zero_matrix(Len(vector))
        ELSE matrix_scaled(kronecker_product(vector, vector),
                           Over(Whole(1), Times(norm, Times(norm, norm))))

call_l2_norm_gradient ==
    /\ op' = "l2_norm_gradient"
    /\ tensor_result' = [gradient |-> l2_norm_gradient(tensor_arguments.vector)]
    /\ UNCHANGED <<tensor_arguments, iterations, error, diagnostic>>
    /\ utility_frame

call_l2_norm_hessian ==
    /\ op' = "l2_norm_hessian"
    /\ tensor_result' = [hessian |-> l2_norm_hessian(tensor_arguments.vector)]
    /\ UNCHANGED <<tensor_arguments, iterations, error, diagnostic>>
    /\ utility_frame

\* the vectors whose norm is a whole number
NormVectors ==
    UNION {{v \in [1..n -> {Whole(c) : c \in (-MaxComponent)..MaxComponent}] :
              HasRoot(dot(v, v))} : n \in 1..MaxSize}

InitNorm ==
    /\ utility_only
    /\ op = "none"
    /\ gradient = <<>> /\ iterations = <<>> /\ diagnostic = <<>>
    /\ tensor_result = <<>>
    /\ \E v \in NormVectors : tensor_arguments = [vector |-> Tuple(v, Len(v))]

NextNorm == call_l2_norm_gradient \/ call_l2_norm_hessian

SpecNorm == InitNorm /\ [][NextNorm]_vars

----------------------------------------------------------------------------
(* Tensor utilities: the shape checks and their messages *)

\* what the message of a logic_error reports: the quantity it names, the number
\* it prints for it and the number it says it must be
message(quantity, reported, expected) ==
    [quantity |-> quantity, reported |-> reported, expected |-> expected]

\* "Size of vector is " << vector.size() << ", but must be " << size
check_size_message(vector, size) ==
    message("Size of vector", Len(vector), size)

\* the rows are checked first; the message of the columns check prints
\* matrix.dimension(0)
check_dimensions_message(matrix, rows_number, columns_number) ==
    IF matrix.d0 # rows_number
    THEN message("Number of rows in matrix", matrix.d0, rows_number)
    ELSE message("Number of columns in matrix", matrix.d0, columns_number)

\* "Number of columns in matrix is " << matrix.dimension(0)
check_columns_number_message(matrix, columns_number) ==
    message("Number of columns in matrix", matrix.d0, columns_number)

\* a check that passes returns; one that fails throws its message
checked(throws, thrown) ==
    /\ error' = IF throws THEN "logic_error" ELSE "none"
    /\ diagnostic' = IF throws THEN thrown ELSE <<>>
    /\ UNCHANGED <<tensor_arguments, tensor_result, iterations>>
    /\ utility_frame

call_check_size ==
    /\ op' = "check_size"
    /\ checked(check_size(tensor_arguments.vector, tensor_arguments.size),
               check_size_message(tensor_arguments.vector, tensor_arguments.size))

call_check_dimensions ==
    /\ op' = "check_dimensions"
    /\ checked(check_dimensions(tensor_arguments.matrix, tensor_arguments.rows_number,
                                tensor_arguments.columns_number),
               check_dimensions_message(tensor_arguments.matrix,
                                        tensor_arguments.rows_number,
                                        tensor_arguments.columns_number))

call_check_columns_number ==
    /\ op' = "check_columns_number"
    /\ checked(check_columns_number(tensor_arguments.matrix,
                                    tensor_arguments.columns_number),
               check_columns_number_message(tensor_arguments.matrix,
                                            tensor_arguments.columns_number))

InitDiagnostic ==
    /\ utility_only
    /\ op = "none"
    /\ gradient = <<>> /\ iterations = <<>> /\ diagnostic = <<>>
    /\ tensor_result = <<>>
    /\ \E rows, columns, length, rows_number, columns_number, size \in 0..MaxSize :
          tensor_arguments = [matrix         |-> resize(rows, columns),
                              vector         |-> Ramp(length, 0, 0),
                              rows_number    |-> rows_number,
                              columns_number |-> columns_number,
                              size           |-> size]

NextDiagnostic == call_check_size \/ call_check_dimensions \/ call_check_columns_number

SpecDiagnostic == InitDiagnostic /\ [][NextDiagnostic]_vars

----------------------------------------------------------------------------
(* Perceptron layer: the views of a flattened parameter vector *)

\* the first biases.size() entries, reshaped to 1 x biases.dimension(1)
get_biases(b, new_parameters) ==
    Tensor2(1, b.d1, SubSeq(new_parameters, 1, Size(b)))

\* weights sliced from directly after the biases
get_synaptic_weights_after_biases(b, w, new_parameters) ==
    Tensor2(get_inputs_number(w), get_neurons_number(b),
            SubSeq(new_parameters, Size(b) + 1, Size(b) + Size(w)))

\* the slice that starts at parameters.size() - synaptic_weights_number,
\* reshaped to inputs_number x neurons_number
get_synaptic_weights(b, w, new_parameters) ==
    LET synaptic_weights_number == get_synaptic_weights_number(w)
        start_synaptic_weights_number == Len(new_parameters) - synaptic_weights_number
    IN  Tensor2(get_inputs_number(w), get_neurons_number(b),
                SubSeq(new_parameters, start_synaptic_weights_number + 1,
                       start_synaptic_weights_number + synaptic_weights_number))

\* a getter writes nothing but what it returns
getter_frame ==
    /\ error' = "none"
    /\ index' = 0
    /\ UNCHANGED <<debug, layer_vars, forward_vars, delta_vars, gradient_vars,
                   dispatch_vars, training_vars, gradient, tensor_arguments, iterations,
                   diagnostic>>

call_get_biases(new_parameters) ==
    /\ op' = "get_biases"
    /\ parameters' = new_parameters
    /\ tensor_result' = get_biases(biases, new_parameters)
    /\ getter_frame

call_get_synaptic_weights(new_parameters) ==
    /\ op' = "get_synaptic_weights"
    /\ parameters' = new_parameters
    /\ tensor_result' = get_synaptic_weights(biases, synaptic_weights, new_parameters)
    /\ getter_frame

\* vectors whose entries all differ
Flattened(n) == {Ramp(n, 1, 1), Ramp(n, -1, 0)}

InitViews ==
    /\ debug = FALSE
    /\ \E i \in 1..MaxInputs, n \in 1..MaxNeurons :
          PerceptronLayer_architecture(i, n, "Linear")
    /\ op = "set"
    /\ error = "none"
    /\ parameters = <<>>
    /\ index = 0
    /\ NoForward
    /\ NoBackward
    /\ NoExtension

NextViews ==
    \/ \E batch \in 1..MaxBatch :
          \E in \in Inputs(batch, get_inputs_number(synaptic_weights)) :
             \E garbage \in Garbage(3 * batch * get_neurons_number(biases)) :
                set_batch(in, garbage)
    \/ \E length \in {get_parameters_number(biases, synaptic_weights),
                      get_parameters_number(biases, synaptic_weights) + 1} :
          \E p \in Flattened(length) :
             \/ call_get_biases(p)
             \/ call_get_synaptic_weights(p)
    \/ \E p \in Flattened(get_parameters_number(biases, synaptic_weights)) :
          \/ forward_propagate_potential(p)
          \/ set_parameters(p, 0)

SpecViews == InitViews /\ [][NextViews]_vars

----------------------------------------------------------------------------
(* Perceptron layer: the layer's derivatives in the gradient of the network *)

\* the destination with the source's first count entries copied from position
\* offset on (positions from 0)
memcpy_into(destination, offset, source, count) ==
    Tuple([k \in 1..Len(destination) |->
              IF k > offset /\ k <= offset + count
              THEN source[k - offset]
              ELSE destination[k]],
          Len(destination))

\* an insertion that writes the weights' derivatives from index on
insert_gradient_weights_at_index(idx, into) ==
    memcpy_into(memcpy_into(into, idx, biases_derivatives, get_biases_number(biases)),
                idx, synaptic_weights_derivatives.data,
                get_synaptic_weights_number(synaptic_weights))

\* the two memcpy: biases_derivatives to index, synaptic_weights_derivatives to
\* index + biases_number
insert_gradient(idx, into) ==
    memcpy_into(memcpy_into(into, idx, biases_derivatives, get_biases_number(biases)),
                idx + get_biases_number(biases), synaptic_weights_derivatives.data,
                get_synaptic_weights_number(synaptic_weights))

\* the caller's vector for the derivatives of every parameter of the network
set_gradient(new_gradient) ==
    /\ gradient' = new_gradient
    /\ op' = "set_gradient"
    /\ error' = "none"
    /\ UNCHANGED <<debug, layer_vars, parameters, index, forward_vars, delta_vars,
                   gradient_vars, dispatch_vars, training_vars, tensor_arguments,
                   tensor_result, iterations, diagnostic>>

\* insert_gradient(back_propagation, index, gradient) in a vector that has room
\* for the layer's parameters from index on
call_insert_gradient(idx) ==
    /\ gradient_batch_set
    /\ idx + get_parameters_number(biases, synaptic_weights) <= Len(gradient)
    /\ gradient' = insert_gradient(idx, gradient)
    /\ index' = idx
    /\ op' = "insert_gradient"
    /\ error' = "none"
    /\ UNCHANGED <<debug, layer_vars, parameters, forward_vars, delta_vars,
                   gradient_vars, dispatch_vars, training_vars, tensor_arguments,
                   tensor_result, iterations, diagnostic>>

\* vectors whose entries differ from every derivative
NetworkGradients(n) == {Ramp(n, 1, 100), Ramp(n, -1, -100)}

\* batches of one sample: the derivatives inserted have the layer's shape
\* whatever the batch
NextInsert ==
    \/ \E ad \in Derivatives(1, get_neurons_number(biases)) :
          \E d \in Deltas(1, get_neurons_number(biases)) :
             set_gradient_batch(
                 Tensor2(1, get_inputs_number(synaptic_weights),
                         Ramp(get_inputs_number(synaptic_weights), 1, 1)),
                 ad, d,
                 Ramp(2 * get_parameters_number(biases, synaptic_weights), 1, 1))
    \/ calculate_error_gradient
    \/ \E tail \in 0..1 :
          \E g \in NetworkGradients(MaxIndex + get_parameters_number(biases, synaptic_weights)
                                    + tail) :
             set_gradient(g)
    \/ \E idx \in 0..MaxIndex : call_insert_gradient(idx)

SpecInsert == InitGradient /\ [][NextInsert]_vars

----------------------------------------------------------------------------
(* Tensor utilities: the loops that OpenMP runs in parallel *)

\* the sequential loop: cell rows_number * j + i of the submatrix is cell
\* (rows_indices[i], columns_indices[j]) of the matrix
fill_submatrix(matrix, rows_indices, columns_indices) ==
    LET rows_number == Len(rows_indices)
        columns_number == Len(columns_indices)
    IN  Tensor2(rows_number, columns_number,
            Tuple([c \in 1..(rows_number * columns_number) |->
                      matrix.data[rows_indices[((c - 1) % rows_number) + 1]
                                  + matrix.d0 * columns_indices[((c - 1) \div rows_number) + 1]
                                  + 1]],
                  rows_number * columns_number))

\* the sequential loop: matrix(i, i) += value for every row i
sum_diagonal(matrix, value) ==
    [matrix EXCEPT !.data =
        Tuple([c \in 1..Size(matrix) |->
                  IF (c - 1) % matrix.d0 = (c - 1) \div matrix.d0
                  THEN Plus(matrix.data[c], value)
                  ELSE matrix.data[c]],
              Size(matrix))]

\* one counter for all the iterations of the parallel loop
loop_counter_shared(iteration) == 1

\* the inner counter and the pointers are declared inside the body of the
\* parallel loop: each iteration has its own
loop_counter(iteration) == iteration

\* the iteration's inner loop has run to its end
inner_loop_finished(iteration, bound) ==
    iterations[loop_counter(iteration)].inner >= bound

parallel_frame ==
    /\ error' = "none"
    /\ UNCHANGED <<op, tensor_arguments, diagnostic>>
    /\ utility_frame

\* direct(i, j) = vector(i) * other_vector(j) in iteration i, then j++
kronecker_product_iteration(i) ==
    LET size == Len(tensor_arguments.vector)
        j == iterations[loop_counter(i + 1)].inner
    IN  /\ op = "kronecker_product"
        /\ ~inner_loop_finished(i + 1, size)
        /\ tensor_result' =
               [tensor_result EXCEPT !.data[i + j * size + 1] =
                   Times(tensor_arguments.vector[i + 1], tensor_arguments.other_vector[j + 1])]
        /\ iterations' = [iterations EXCEPT ![loop_counter(i + 1)].inner = j + 1]
        /\ parallel_frame

\* *submatrix_column_pointer = *value_pointer in iteration j, then both
\* pointers of the iteration advance
fill_submatrix_iteration(j) ==
    LET rows_number == Len(tensor_arguments.rows_indices)
        i == iterations[loop_counter(j + 1)].inner
        matrix == tensor_arguments.matrix
    IN  /\ op = "fill_submatrix"
        /\ ~inner_loop_finished(j + 1, rows_number)
        /\ tensor_result' =
               [tensor_result EXCEPT !.data[rows_number * j + i + 1] =
                   matrix.data[matrix.d0 * tensor_arguments.columns_indices[j + 1]
                               + tensor_arguments.rows_indices[i + 1] + 1]]
        /\ iterations' = [iterations EXCEPT ![loop_counter(j + 1)].inner = i + 1]
        /\ parallel_frame

\* matrix(i, i) += value: the cell is loaded ...
sum_diagonal_load(i) ==
    /\ op = "sum_diagonal"
    /\ iterations[i + 1].inner = 0
    /\ iterations' = [iterations EXCEPT ![i + 1] =
                         [inner |-> 1, loaded |-> At(tensor_result, i, i)]]
    /\ UNCHANGED tensor_result
    /\ parallel_frame

\* ... and the sum is stored
sum_diagonal_store(i) ==
    /\ op = "sum_diagonal"
    /\ iterations[i + 1].inner = 1
    /\ tensor_result' =
           [tensor_result EXCEPT !.data[i + i * tensor_result.d0 + 1] =
               Plus(iterations[i + 1].loaded, tensor_arguments.value)]
    /\ iterations' = [iterations EXCEPT ![i + 1].inner = 2]
    /\ parallel_frame

\* no iteration has started
not_started(n) == Tuple([k \in 1..n |-> [inner |-> 0, loaded |-> Whole(0)]], n)

WholeVectors(n) == {Tuple([k \in 1..n |-> Whole(a * k + b)], n) : a \in Slopes, b \in Offsets}

WholeMatrices(n) == {Tensor2(n, n, v) : v \in WholeVectors(n * n)}

\* the first index, the first and last in reverse order, every index in order
Selections(n) ==
    {<<0>>, <<n - 1, 0>>, Tuple([k \in 1..n |-> k - 1], n)}

InitParallel ==
    /\ utility_only
    /\ gradient = <<>> /\ diagnostic = <<>>
    /\ \E size \in 1..MaxSize :
          \/ /\ op = "kronecker_product"
             /\ \E v, w \in WholeVectors(size) :
                   tensor_arguments = [vector |-> v, other_vector |-> w]
             /\ \E garbage \in Uninitialized :
                   tensor_result = Tensor2(size, size, Filled(size * size, garbage))
             /\ iterations = not_started(size)
          \/ /\ op = "fill_submatrix"
             /\ \E m \in WholeMatrices(size) : \E rows, columns \in Selections(size) :
                   /\ tensor_arguments = [matrix |-> m, rows_indices |-> rows,
                                          columns_indices |-> columns]
                   /\ \E garbage \in Uninitialized :
                         tensor_result = Tensor2(Len(rows), Len(columns),
                                                 Filled(Len(rows) * Len(columns), garbage))
                   /\ iterations = not_started(Len(columns))
          \/ /\ op = "sum_diagonal"
             /\ \E m \in WholeMatrices(size) : \E value \in {Whole(1), Whole(-2)} :
                   /\ tensor_arguments = [matrix |-> m, value |-> value]
                   /\ tensor_result = m
             /\ iterations = not_started(size)

NextParallel ==
    \E k \in 0..(Len(iterations) - 1) :
        \/ kronecker_product_iteration(k)
        \/ fill_submatrix_iteration(k)
        \/ sum_diagonal_load(k)
        \/ sum_diagonal_store(k)

SpecParallel == InitParallel /\ [][NextParallel]_vars

----------------------------------------------------------------------------
(* Claims about the parameter layout *)

WellFormed == synaptic_weights.d1 = Size(biases) /\ biases.d0 = 1

\* C1: for a layer with I inputs and N neurons, get_parameters() returns a
\* vector of length N + I*N whose entries 0..N-1 are the biases in neuron
\* order and whose entry N + n*I + i is the weight from input i to neuron n.
C1_ParameterLayout ==
    (op = "get_parameters" /\ WellFormed) =>
        LET I == get_inputs_number(synaptic_weights)
            N == get_neurons_number(biases)
        IN  /\ Len(parameters) = N + I * N
            /\ \A n \in 0..(N - 1) : parameters[n + 1] = At(biases, 0, n)
            /\ \A n \in 0..(N - 1) : \A i \in 0..(I - 1) :
                  parameters[N + n * I + i + 1] = At(synaptic_weights, i, n)

C1_Witness ==
    /\ op = "get_parameters"
    /\ WellFormed
    /\ get_inputs_number(synaptic_weights) = 2
    /\ get_neurons_number(biases) = 2
    /\ parameters = <<1, 0, 1, 0, -1, -2>>

\* C2: set_parameters(get_parameters()) with index 0 leaves every bias and
\* every synaptic weight identical to its value before the call, and leaves
\* the bias and weight dimensions unchanged.
C2_RoundTrip ==
    [][op' = "round_trip" => (biases' = biases /\ synaptic_weights' = synaptic_weights)]_vars

C2_Witness ==
    /\ op = "round_trip"
    /\ Size(biases) = 2
    /\ Size(synaptic_weights) = 4
    /\ parameters = <<0, 1, 2, 3, 4, 5>>

----------------------------------------------------------------------------
(* Claims about forward propagation *)

\* bias of neuron j plus the sum over the inputs i of in(s, i) * w(i, j)
Combination(in, b, w, s, j) ==
    Linear(b, j) + SumTo([i \in 1..w.d0 |-> At(in, s, i - 1) * At(w, i - 1, j)], w.d0)

Activation(af, c) ==
    CASE af = "Linear" -> c
      [] af = "Threshold" -> IF c >= 0 THEN 1 ELSE 0
      [] af = "SymmetricThreshold" -> IF c >= 0 THEN 1 ELSE -1
      [] af = "RectifiedLinear" -> IF c > 0 THEN c ELSE 0

ForwardOperations ==
    {"calculate_combinations", "calculate_outputs", "forward_propagate",
     "forward_propagate_potential"}

\* C3: calculate_combinations writes, for every sample s and neuron j,
\* combinations(s, j) = biases(j) + sum over inputs i of
\* inputs(s, i) * weights(i, j), whatever the buffer held before the call.
C3_Combinations ==
    (op \in {"calculate_combinations", "forward_propagate"} /\ error = "none") =>
        /\ combinations.d0 = inputs.d0
        /\ combinations.d1 = get_neurons_number(biases)
        /\ \A s \in 0..(inputs.d0 - 1) : \A j \in 0..(get_neurons_number(biases) - 1) :
              At(combinations, s, j) = Combination(inputs, biases, synaptic_weights, s, j)

C3_Witness ==
    /\ op = "calculate_combinations"
    /\ error = "none"
    /\ inputs.d0 = 2
    /\ inputs.d1 = 2
    /\ get_neurons_number(biases) = 2
    /\ At(combinations, 1, 1) # Linear(biases, 1)
    /\ At(combinations, 0, 1) # At(combinations, 1, 0)

C5_Outputs ==
    (op = "calculate_outputs" /\ error = "none") =>
        /\ outputs.d0 = inputs.d0
        /\ outputs.d1 = get_neurons_number(biases)
        /\ \A s \in 0..(inputs.d0 - 1) : \A j \in 0..(get_neurons_number(biases) - 1) :
              At(outputs, s, j) =
                  Activation(activation_function,
                             Combination(inputs, biases, synaptic_weights, s, j))
        /\ (/\ get_inputs_number(synaptic_weights) = 1
            /\ get_neurons_number(biases) = 1
            /\ activation_function = "Linear"
            /\ biases.data = <<0>>
            /\ synaptic_weights.data = <<1>>) => outputs.data = inputs.data

C5_Witness ==
    /\ op = "calculate_outputs"
    /\ error = "none"
    /\ get_inputs_number(synaptic_weights) = 1
    /\ get_neurons_number(biases) = 1
    /\ activation_function = "Linear"
    /\ biases.data = <<0>>
    /\ synaptic_weights.data = <<1>>
    /\ outputs.data = <<-1, 0>>

\* C6: forward_propagate called with a candidate parameter vector leaves the
\* layer's stored biases, synaptic weights and activation function unchanged
\* for every candidate vector.
C6_CandidateFrame ==
    [][op' = "forward_propagate_potential" => UNCHANGED <<layer_vars, inputs>>]_vars

C6_Witness ==
    /\ op = "forward_propagate_potential"
    /\ error = "none"
    /\ parameters # get_parameters(biases, synaptic_weights)
    /\ Size(combinations) = 4
    /\ \A s \in 0..1 : \A j \in 0..1 :
          At(combinations, s, j) =
              Combination(inputs, potential_biases(parameters),
                          potential_synaptic_weights(parameters), s, j)

----------------------------------------------------------------------------
(* Claims about the hidden delta *)

\* the cell of the next layer's weights that links neuron i of this layer to
\* neuron j of the next layer
NextWeight(i, j) == At(next_layer.synaptic_weights, i, j)

\* entry (j, k) of the block of sample s in the stored derivatives
Jacobian(s, j, k) ==
    LET n == next_layer.neurons_number
    IN  next_activations_derivatives.data[s * n * n + j + k * n + 1]

ErrorCombination(s, k) ==
    LET n == next_layer.neurons_number
    IN  SumTo([j \in 1..n |-> At(next_delta, s, j - 1) * Jacobian(s, j - 1, k)], n)

\* C7: when the next layer is a perceptron layer, calculate_hidden_delta sets
\* delta(s, i) to the sum over the next layer's neurons j of
\* nextDelta(s, j) * nextActivationDerivative(s, j) * nextWeight(i, j)
C7_PerceptronDelta ==
    (op = "calculate_hidden_delta" /\ next_layer.type = "Perceptron") =>
        /\ error = "none"
        /\ delta.d0 = next_delta.d0
        /\ delta.d1 = next_layer.synaptic_weights.d0
        /\ \A s \in 0..(delta.d0 - 1), i \in 0..(delta.d1 - 1) :
              At(delta, s, i) =
                  SumTo([j \in 1..next_layer.neurons_number |->
                            At(next_delta, s, j - 1)
                            * At(next_activations_derivatives, s, j - 1)
                            * NextWeight(i, j - 1)],
                        next_layer.neurons_number)

\* two samples, two neurons here and two in the next perceptron layer
C7_Witness ==
    /\ op = "calculate_hidden_delta"
    /\ next_layer.type = "Perceptron"
    /\ next_layer.neurons_number = 2
    /\ delta.d0 = 2
    /\ delta.d1 = 2
    /\ At(delta, 1, 1) # At(delta, 0, 0)
    /\ At(delta, 1, 1) # 0

\* C8: in the softmax branch each sample s is treated with its own block of
\* the stored derivatives: errorCombinations(s, k) is the sum over j of
\* nextDelta(s, j) * Jacobian_s(j, k), and delta(s, i) is the sum over k of
\* errorCombinations(s, k) * nextWeight(i, k)
C8_SoftmaxDelta ==
    (op \in {"calculate_hidden_delta", "calculate_hidden_delta_lm"}
        /\ branch = "softmax" /\ error = "none") =>
        LET n == next_layer.neurons_number IN
        /\ \A s \in 0..(next_delta.d0 - 1), k \in 0..(n - 1) :
              At(error_combinations_derivatives, s, k) = ErrorCombination(s, k)
        /\ \A s \in 0..(delta.d0 - 1), i \in 0..(delta.d1 - 1) :
              At(delta, s, i) =
                  SumTo([k \in 1..n |-> ErrorCombination(s, k - 1) * NextWeight(i, k - 1)], n)

\* two samples and a softmax layer of two neurons: the second sample's result
\* differs from what the first sample's block would give
C8_Witness ==
    /\ op = "calculate_hidden_delta"
    /\ branch = "softmax"
    /\ error = "none"
    /\ next_layer.neurons_number = 2
    /\ next_delta.d0 = 2
    /\ delta.d1 = 2
    /\ \E k \in 0..1 :
          ErrorCombination(1, k) #
              SumTo([j \in 1..2 |-> At(next_delta, 1, j - 1)
                                    * next_activations_derivatives.data[(j - 1) + k * 2 + 1]], 2)

\* the softmax branch is the one taken
SoftmaxBranch(operation) ==
    /\ next_layer.type = "Probabilistic"
    /\ next_layer.activation_function = "Softmax"
    /\ \/ operation = "calculate_hidden_delta_lm"
       \/ operation = "calculate_hidden_delta" /\ next_layer.neurons_number # 1

SoftmaxMismatch ==
    \/ next_delta.d1 # next_layer.neurons_number
    \/ next_activations_derivatives.d1 # next_layer.neurons_number
    \/ next_activations_derivatives.d2 # next_layer.neurons_number

\* C9: the softmax branch of calculate_hidden_delta and of
\* calculate_hidden_delta_lm fails with a logic error, before delta or the
\* scratch buffers are written, when the columns of the next layer's delta or
\* dimension 1 or 2 of its derivatives differ from its neurons number
C9_SoftmaxChecks ==
    [][(op' \in {"calculate_hidden_delta", "calculate_hidden_delta_lm"}
           /\ SoftmaxBranch(op') /\ SoftmaxMismatch) =>
          /\ error' = "logic_error"
          /\ UNCHANGED <<delta, delta_row, error_combinations_derivatives>>]_vars

\* the last of the three checks alone fails, in the Levenberg-Marquardt variant
C9_Witness ==
    /\ op = "calculate_hidden_delta_lm"
    /\ error = "logic_error"
    /\ next_delta.d1 = next_layer.neurons_number
    /\ next_activations_derivatives.d1 = next_layer.neurons_number
    /\ next_activations_derivatives.d2 # next_layer.neurons_number

\* the formula the dispatch is to select for a next layer
ExpectedBranch ==
    CASE next_layer.type = "Perceptron" -> "perceptron"
      [] next_layer.type = "Probabilistic" /\ next_layer.neurons_number = 1 -> "binary"
      [] next_layer.type = "Probabilistic" /\ next_layer.neurons_number > 1
            /\ next_layer.activation_function # "Softmax" -> "multiple"
      [] next_layer.type = "Probabilistic" /\ next_layer.neurons_number > 1
            /\ next_layer.activation_function = "Softmax" -> "softmax"
      [] OTHER -> "none"

\* delta as the element-wise formula gives it, the derivatives read one per
\* cell of the next layer's delta
ElementwiseDelta ==
    \A s \in 0..(delta.d0 - 1), i \in 0..(delta.d1 - 1) :
        At(delta, s, i) =
            SumTo([j \in 1..next_delta.d1 |->
                      At(next_delta, s, j - 1)
                      * next_activations_derivatives.data[s + (j - 1) * next_delta.d0 + 1]
                      * NextWeight(i, j - 1)],
                  next_delta.d1)

\* C10 as stated: one formula per kind, and a next layer of any other kind
\* makes the call fail
C10_Original ==
    [][op' = "calculate_hidden_delta" =>
          /\ branch' = ExpectedBranch
          /\ (next_layer.type \notin {"Perceptron", "Probabilistic"}) => error' # "none"]_vars

\* C10: calculate_hidden_delta selects the formula by the next layer's kind:
\* the element-wise formula for a perceptron layer, the binary element-wise
\* formula for a probabilistic layer of one neuron whatever its activation,
\* the element-wise formula for a probabilistic layer of several neurons that
\* is not softmax, the Jacobian formula for one that is softmax; for any
\* other kind of layer the call returns without an error, applies no formula
\* and leaves delta as it was
C10_Dispatch ==
    [][op' = "calculate_hidden_delta" =>
          /\ branch' = ExpectedBranch
          /\ (next_layer.type \notin {"Perceptron", "Probabilistic"}) =>
                (branch' = "none" /\ error' = "none"
                    /\ UNCHANGED <<delta, delta_row, error_combinations_derivatives>>)
          /\ (branch' \in {"perceptron", "binary"} /\ error' = "none") => ElementwiseDelta'
          /\ (branch' = "softmax") =>
                (error' = "logic_error" \/ C8_SoftmaxDelta')]_vars

\* a next layer that is neither a perceptron nor a probabilistic layer: the
\* call has returned and delta still holds what it held
C10_Witness ==
    /\ op = "calculate_hidden_delta"
    /\ next_layer.type = "Scaling"
    /\ branch = "none"
    /\ error = "none"
    /\ delta = Tensor2(2, 2, <<1, 2, 3, 4>>)

----------------------------------------------------------------------------
(* Claims about the error gradient and the squared errors Jacobian *)

\* delta(s, n) * activations_derivatives(s, n)
ErrorCombinationDerivative(s, n) == At(delta, s, n) * At(activations_derivatives, s, n)

\* C11: calculate_error_gradient sets biases_derivatives(n) to the sum over the
\* samples s of delta(s, n) * activations_derivatives(s, n) and
\* synaptic_weights_derivatives(i, n) to the sum over the samples of
\* inputs(s, i) * delta(s, n) * activations_derivatives(s, n), whatever the two
\* buffers held before
C11_ErrorGradient ==
    op = "calculate_error_gradient" =>
        LET batch == inputs.d0
            i_number == get_inputs_number(synaptic_weights)
            n_number == get_neurons_number(biases)
        IN  /\ Len(biases_derivatives) = n_number
            /\ synaptic_weights_derivatives.d0 = i_number
            /\ synaptic_weights_derivatives.d1 = n_number
            /\ \A n \in 0..(n_number - 1) :
                  biases_derivatives[n + 1] =
                      SumTo([s \in 1..batch |-> ErrorCombinationDerivative(s - 1, n)], batch)
            /\ \A i \in 0..(i_number - 1), n \in 0..(n_number - 1) :
                  At(synaptic_weights_derivatives, i, n) =
                      SumTo([s \in 1..batch |->
                                At(inputs, s - 1, i) * ErrorCombinationDerivative(s - 1, n)],
                            batch)

\* two samples, two inputs, two neurons: the gradient has been computed and is
\* not zero
C11_Witness ==
    /\ op = "calculate_error_gradient"
    /\ inputs.d0 = 2
    /\ synaptic_weights_derivatives.d0 = 2
    /\ Len(biases_derivatives) = 2
    /\ biases_derivatives[2] # 0
    /\ At(synaptic_weights_derivatives, 1, 1) # 0

\* the parameter that get_parameters places at entry c of the flattened vector:
\* the biases are numbered -1 - n and the weights i + n * inputs
ParameterAt(c) ==
    LET i_number == get_inputs_number(synaptic_weights)
        n_number == get_neurons_number(biases)
        numbered_biases == [biases EXCEPT !.data = Ramp(n_number, -1, -1)]
        numbered_weights == [synaptic_weights EXCEPT !.data = Ramp(i_number * n_number, 1, 0)]
    IN  get_parameters(numbered_biases, numbered_weights)[c + 1]

\* the derivative of sample s with respect to the parameter at entry c
JacobianEntry(s, c) ==
    LET i_number == get_inputs_number(synaptic_weights)
        label == ParameterAt(c)
    IN  IF label < 0
        THEN ErrorCombinationDerivative(s, -1 - label)
        ELSE ErrorCombinationDerivative(s, label \div i_number)
             * At(inputs, s, label % i_number)

\* the assignments the loops of calculate_squared_errors_Jacobian_lm make
JacobianWrites == Jacobian_samples_loop(inputs, delta, activations_derivatives, 0)

\* C12: calculate_squared_errors_Jacobian_lm fills, for every sample s, column
\* n with delta(s, n) * activationDerivative(s, n) and column
\* neurons + n * inputs + i with that product times input(s, i); every one of
\* the neurons * (inputs + 1) columns is written exactly once per sample, and
\* column c is the derivative with respect to entry c of get_parameters
C12_SquaredErrorsJacobian ==
    op = "calculate_squared_errors_Jacobian_lm" =>
        LET batch == inputs.d0
            i_number == get_inputs_number(synaptic_weights)
            n_number == get_neurons_number(biases)
        IN  /\ squared_errors_Jacobian.d1 = n_number * (i_number + 1)
            /\ \A s \in 0..(batch - 1), n \in 0..(n_number - 1) :
                  /\ At(squared_errors_Jacobian, s, n) = ErrorCombinationDerivative(s, n)
                  /\ \A i \in 0..(i_number - 1) :
                        At(squared_errors_Jacobian, s, n_number + n * i_number + i) =
                            ErrorCombinationDerivative(s, n) * At(inputs, s, i)
            /\ \A s \in 0..(batch - 1), c \in 0..(squared_errors_Jacobian.d1 - 1) :
                  /\ Cardinality({k \in 1..Len(JacobianWrites) :
                                     JacobianWrites[k].sample = s
                                     /\ JacobianWrites[k].column = c}) = 1
                  /\ At(squared_errors_Jacobian, s, c) = JacobianEntry(s, c)

\* two samples, two inputs, two neurons: the last weight column of the second
\* sample differs from the column before it
C12_Witness ==
    /\ op = "calculate_squared_errors_Jacobian_lm"
    /\ inputs.d0 = 2
    /\ get_inputs_number(synaptic_weights) = 2
    /\ get_neurons_number(biases) = 2
    /\ At(squared_errors_Jacobian, 1, 5) # At(squared_errors_Jacobian, 1, 4)
    /\ At(squared_errors_Jacobian, 1, 5) # 0

----------------------------------------------------------------------------
(* Claims about the activation function *)

\* C13: set_activation_function(name) with a name that is not one of the
\* eleven activation functions raises an error and leaves the layer's
\* activation function as it was; with one of the eleven names it raises
\* nothing and the layer's activation function is the one named
C13_ActivationFunctionName ==
    [][op' = "set_activation_function_name" =>
          IF new_activation_function_name' \in ActivationFunction
          THEN error' = "none" /\ activation_function' = new_activation_function_name'
          ELSE error' = "logic_error" /\ activation_function' = activation_function]_vars

\* an unknown name has been refused by a layer whose function is not the
\* default one
C13_Witness ==
    /\ op = "set_activation_function_name"
    /\ new_activation_function_name = "logistic"
    /\ error = "logic_error"
    /\ activation_function = "SoftSign"

\* the routine of each variant: the forward transform and the pair of
\* transform and derivative
ForwardTransform(af, x) ==
    CASE af = "Threshold" -> threshold(x)
      [] af = "SymmetricThreshold" -> symmetric_threshold(x)
      [] af = "Logistic" -> logistic(x)
      [] af = "HyperbolicTangent" -> hyperbolic_tangent(x)
      [] af = "Linear" -> linear(x)
      [] af = "RectifiedLinear" -> rectified_linear(x)
      [] af = "ExponentialLinear" -> exponential_linear(x)
      [] af = "ScaledExponentialLinear" -> scaled_exponential_linear(x)
      [] af = "SoftPlus" -> soft_plus(x)
      [] af = "SoftSign" -> soft_sign(x)
      [] af = "HardSigmoid" -> hard_sigmoid(x)

DerivativePair(af, x) ==
    CASE af = "Threshold" -> threshold_derivatives(x)
      [] af = "SymmetricThreshold" -> symmetric_threshold_derivatives(x)
      [] af = "Logistic" -> logistic_derivatives(x)
      [] af = "HyperbolicTangent" -> hyperbolic_tangent_derivatives(x)
      [] af = "Linear" -> linear_derivatives(x)
      [] af = "RectifiedLinear" -> rectified_linear_derivatives(x)
      [] af = "ExponentialLinear" -> exponential_linear_derivatives(x)
      [] af = "ScaledExponentialLinear" -> scaled_exponential_linear_derivatives(x)
      [] af = "SoftPlus" -> soft_plus_derivatives(x)
      [] af = "SoftSign" -> soft_sign_derivatives(x)
      [] af = "HardSigmoid" -> hard_sigmoid_derivatives(x)

\* C14: the activation function is the one most recently set without error, by
\* enumerator or by name, and no other operation changes it; calculate_activations
\* applies the forward transform of that variant and
\* calculate_activations_derivatives the transform and derivative of the same
\* variant, each of the eleven variants having its own routine
C14_SameVariant ==
    [][/\ op' = "set_activation_function" =>
             activation_function' = new_activation_function_name'
       /\ (op' = "set_activation_function_name" /\ error' = "none") =>
             activation_function' = new_activation_function_name'
       /\ (op' = "set_activation_function_name" /\ error' # "none") =>
             activation_function' = activation_function
       /\ op' \in {"calculate_activations", "calculate_activations_derivatives"} =>
             activation_function' = activation_function
       /\ (op' = "calculate_activations" /\ error' = "none") =>
             activations' = ForwardTransform(activation_function, combinations)
       /\ (op' = "calculate_activations_derivatives" /\ error' = "none") =>
             /\ activations' = ForwardTransform(activation_function, combinations)
             /\ activations_derivatives' =
                    DerivativePair(activation_function, combinations).activations_derivatives]_vars

\* SoftSign was set by name, and the derivatives call has used its routines
C14_Witness ==
    /\ op = "calculate_activations_derivatives"
    /\ error = "none"
    /\ activation_function = "SoftSign"
    /\ activations = soft_sign(combinations)
    /\ activations_derivatives = apply("soft_sign_derivative", combinations)

----------------------------------------------------------------------------
(* Claims about the layer's shape *)

\* the parameters are an outcome of set_parameters_random on the layer's shape
RandomlyInitialized(b, w) ==
    \E random \in Vectors(Size(b) + Size(w)) :
        /\ b = memcpy(b, random, 0)
        /\ w = memcpy(w, random, Size(b))

\* C15: set_inputs_number and set_neurons_number resize the biases and the
\* synaptic weights to the new shape and initialize the parameters at random,
\* so that no value is carried over from before the call or left unwritten
C15_ResizeReinitializes ==
    [][op' \in {"set_inputs_number", "set_neurons_number"} =>
          /\ biases'.d0 = 1
          /\ biases'.d1 = synaptic_weights'.d1
          /\ RandomlyInitialized(biases', synaptic_weights')]_vars

----------------------------------------------------------------------------
(* Claims about the quasi-Newton optimizer *)

Stopped == training.state = "Stopped"

\* C16: a training run starts in Running and ends in one of the six stopping
\* conditions; while it runs no condition is reported, and once one is selected
\* no further step of an epoch is taken and the reported condition, the epoch
\* counter, the parameters and the optimization data never change again.
C16_TerminalStoppingCondition ==
    /\ training.state = "Running"
    /\ [][/\ training.state \in {"Running", "Stopped"}
          /\ training.state = "Running" => training.stopping_condition = ""
          /\ training'.state = "Stopped" =>
                training'.stopping_condition \in StoppingCondition
          /\ Stopped => UNCHANGED training_vars]_vars
    /\ <>Stopped

C16_Witness ==
    /\ Stopped
    /\ training.stopping_condition = "MaximumSelectionFailures"
    /\ optimization_data.epoch < quasi_newton_method.maximum_epochs_number

\* the six criteria in the order of the claim, on the values the epoch ended with
CriteriaHeld ==
    << back_propagation.loss <= quasi_newton_method.training_loss_goal,
       training.old_loss - back_propagation.loss <= quasi_newton_method.minimum_loss_decrease,
       optimization_data.epoch >= quasi_newton_method.maximum_epochs_number,
       training.elapsed_time >= quasi_newton_method.maximum_time,
       training.selection_failures >= quasi_newton_method.maximum_selection_failures,
       optimization_data.learning_rate = <<0, 1>> >>

CriteriaOrder ==
    << "LossGoal", "MinimumLossDecrease", "MaximumEpochs", "MaximumTime",
       "MaximumSelectionFailures", "ZeroLearningRate" >>

OtherCriterionHolds == \E i \in {1, 2, 4, 5, 6} : CriteriaHeld[i]

\* C18: with maximum_epochs_number N >= 1 the run eventually stops and the
\* epoch counter never exceeds N; when it stops with no other criterion
\* holding, it has run N epochs and reports MaximumEpochs.
C18_MaximumEpochs ==
    /\ [](/\ quasi_newton_method.maximum_epochs_number >= 1
          /\ optimization_data.epoch <= quasi_newton_method.maximum_epochs_number)
    /\ [](Stopped /\ ~OtherCriterionHolds =>
             /\ training.stopping_condition = "MaximumEpochs"
             /\ optimization_data.epoch = quasi_newton_method.maximum_epochs_number)
    /\ <>Stopped

C18_Witness ==
    /\ Stopped /\ ~OtherCriterionHolds
    /\ optimization_data.epoch > 1
    /\ training.stopping_condition = "MaximumEpochs"

\* the update has nothing to divide by
Degenerate ==
    \/ optimization_data.epoch = 0
    \/ \A k \in 1..Len(optimization_data.parameters_difference) :
          optimization_data.parameters_difference[k] = <<0, 1>>
    \/ \A k \in 1..Len(optimization_data.gradient_difference) :
          optimization_data.gradient_difference[k] = <<0, 1>>
    \/ dot(optimization_data.parameters_difference, optimization_data.gradient_difference)
          = <<0, 1>>

IsIdentity(h) ==
    \A i \in 0..(h.d0 - 1), j \in 0..(h.d1 - 1) :
        At(h, i, j) = IF i = j THEN <<1, 1>> ELSE <<0, 1>>

\* C19: when calculate_inverse_hessian_approximation runs in the first epoch,
\* or with a zero parameters difference, a zero gradient difference or a zero
\* dot product of the two, the inverse Hessian it leaves is the identity and it
\* has divided by no zero, with DFP as with BFGS.
C19_DegenerateUpdateIsIdentity ==
    [][epoch_step = "inverse_hessian" /\ epoch_step' = "direction" /\ Degenerate =>
          /\ IsIdentity(optimization_data'.inverse_hessian)
          /\ ~training'.division_by_zero]_vars

C19_Witness ==
    /\ epoch_step = "direction"
    /\ optimization_data.epoch > 0
    /\ quasi_newton_method.inverse_hessian_approximation_method = "DFP"
    /\ \E k \in 1..2 : optimization_data.parameters_difference[k] # <<0, 1>>
    /\ \E k \in 1..2 : optimization_data.gradient_difference[k] # <<0, 1>>
    /\ dot(optimization_data.parameters_difference, optimization_data.gradient_difference)
          = <<0, 1>>
    /\ ~IsIdentity(optimization_data.old_inverse_hessian)
    /\ IsIdentity(optimization_data.inverse_hessian)
    /\ ~training.division_by_zero

\* -H g
QuasiNewtonDirection(h, g) == scaled(product(h, g), <<-1, 1>>)

\* C20: the direction handed to the line search is -H*gradient when its dot
\* product with the gradient is negative, with H left alone; otherwise it is
\* -gradient and H is the identity. With a gradient that is not zero the
\* direction has a negative dot product with the gradient.
C20_DescentDirection ==
    [][epoch_step = "direction" /\ epoch_step' = "learning_rate" =>
          LET h == optimization_data.inverse_hessian
              g == back_propagation.gradient
              d == optimization_data'.training_direction
          IN  /\ IF Negative(dot(QuasiNewtonDirection(h, g), g))
                 THEN /\ d = QuasiNewtonDirection(h, g)
                      /\ optimization_data'.inverse_hessian = h
                 ELSE /\ d = scaled(g, <<-1, 1>>)
                      /\ IsIdentity(optimization_data'.inverse_hessian)
              /\ (\E k \in 1..Len(g) : g[k] # <<0, 1>>) => Negative(dot(d, g))]_vars

C20_Witness ==
    /\ epoch_step = "learning_rate"
    /\ \E k \in 1..2 : back_propagation.gradient[k] # <<0, 1>>
    /\ ~Negative(optimization_data.training_slope)
    /\ optimization_data.training_direction = scaled(back_propagation.gradient, <<-1, 1>>)
    /\ IsIdentity(optimization_data.inverse_hessian)
    /\ Negative(dot(optimization_data.training_direction, back_propagation.gradient))

\* the network's total number of parameters
ParametersNumber == Len(back_propagation.parameters)

IsSquare(h, n) == h.d0 = n /\ h.d1 = n /\ Len(h.data) = n * n

\* C21: after QuasiNewtonMehtodData::set and after every step of every epoch,
\* the inverse Hessian and the old inverse Hessian are P x P matrices, and the
\* old parameters, the parameters difference, the old gradient, the gradient
\* difference and the training direction have length P, the network's number
\* of parameters.
C21_OptimizationDataShapes ==
    /\ IsSquare(optimization_data.inverse_hessian, ParametersNumber)
    /\ IsSquare(optimization_data.old_inverse_hessian, ParametersNumber)
    /\ Len(optimization_data.old_parameters) = ParametersNumber
    /\ Len(optimization_data.parameters_difference) = ParametersNumber
    /\ Len(optimization_data.old_gradient) = ParametersNumber
    /\ Len(optimization_data.gradient_difference) = ParametersNumber
    /\ Len(optimization_data.training_direction) = ParametersNumber

C21_Witness ==
    /\ C21_OptimizationDataShapes
    /\ ParametersNumber = 2
    /\ optimization_data.epoch = 2
    /\ epoch_step = "gradient"
    /\ ~IsIdentity(optimization_data.inverse_hessian)
    /\ IsIdentity(optimization_data.old_inverse_hessian)

\* C22: in the first epoch the inverse Hessian that the first training
\* direction is computed from is the identity, not the zero matrix that
\* QuasiNewtonMehtodData::set wrote: the first direction is minus the gradient.
C22_FirstInverseHessianIsIdentity ==
    [][optimization_data.epoch = 0 /\ epoch_step = "direction"
          /\ epoch_step' = "learning_rate" =>
          /\ IsIdentity(optimization_data.inverse_hessian)
          /\ optimization_data'.training_direction =
                scaled(back_propagation.gradient, <<-1, 1>>)]_vars

C22_Witness ==
    /\ optimization_data.epoch = 0 /\ epoch_step = "learning_rate"
    /\ \A k \in 1..4 : optimization_data.old_inverse_hessian.data[k] = <<0, 1>>
    /\ IsIdentity(optimization_data.inverse_hessian)
    /\ optimization_data.parameters_difference = <<(<<1, 1>>), (<<1, 1>>)>>
    /\ back_propagation.gradient = <<(<<1, 1>>), (<<1, 1>>)>>
    /\ optimization_data.training_direction = <<(<<-1, 1>>), (<<-1, 1>>)>>

IsSymmetric(h) ==
    \A i \in 0..(h.d0 - 1), j \in 0..(h.d1 - 1) : At(h, i, j) = At(h, j, i)

\* the update has what it divides by
NonDegenerate ==
    LET dp == optimization_data.parameters_difference
        dg == optimization_data.gradient_difference
    IN  /\ dot(dp, dg) # <<0, 1>>
        /\ dot(dg, product(optimization_data.inverse_hessian, dg)) # <<0, 1>>

\* C23: from a symmetric inverse Hessian, and differences whose dot product and
\* whose quadratic form dg.H.dg are not zero, the DFP update and the BFGS
\* update each give a symmetric matrix.
C23_UpdateKeepsSymmetry ==
    [][/\ epoch_step = "inverse_hessian" /\ epoch_step' = "direction"
       /\ IsSymmetric(optimization_data.inverse_hessian)
       /\ NonDegenerate
       => IsSymmetric(optimization_data'.inverse_hessian)]_vars

C23_Witness ==
    /\ epoch_step = "direction"
    /\ quasi_newton_method.inverse_hessian_approximation_method = "BFGS"
    /\ ~IsIdentity(optimization_data.old_inverse_hessian)
    /\ At(optimization_data.old_inverse_hessian, 0, 1) # <<0, 1>>
    /\ optimization_data.inverse_hessian # optimization_data.old_inverse_hessian
    /\ At(optimization_data.inverse_hessian, 0, 1) # <<0, 1>>
    /\ At(optimization_data.inverse_hessian, 0, 0) # At(optimization_data.inverse_hessian, 1, 1)
    /\ IsSymmetric(optimization_data.inverse_hessian)

\* C24: the default constructor leaves the optimizer without a loss index and
\* the loss index constructor leaves it with the one it was given; calling
\* perform_training on an optimizer without a loss index throws, starts no
\* epoch and changes neither the network's parameters nor anything else of the
\* run, and with a loss index the run starts.
C24_NoLossIndexIsFatal ==
    /\ default_constructor.loss_index_pointer = "nullptr"
    /\ loss_index_constructor("loss_index").loss_index_pointer = "loss_index"
    /\ [][op' = "perform_training" /\ training.state = "Idle" =>
             IF quasi_newton_method.loss_index_pointer = "nullptr"
             THEN /\ error' = "logic_error"
                  /\ training'.state = "Idle"
                  /\ UNCHANGED <<back_propagation, optimization_data, epoch_step>>
             ELSE /\ error' = "none"
                  /\ training'.state = "Running"]_vars

C24_Witness ==
    /\ op = "perform_training" /\ error = "logic_error"
    /\ quasi_newton_method = default_constructor
    /\ training.state = "Idle"
    /\ optimization_data.epoch = 0
    /\ back_propagation.parameters = <<(<<0, 1>>)>>

----------------------------------------------------------------------------
(* Claims about the tensor utilities *)

\* C25: l2_norm_hessian and l2_norm_gradient, given a vector whose L2 norm is
\* zero, return the all-zero matrix and the all-zero vector; for a vector of
\* non-zero norm, entry (i, j) of the Hessian times norm^3 is v(i) * v(j), and
\* entry i of the gradient times the norm is v(i)
C25_NormDerivatives ==
    op \in {"l2_norm_gradient", "l2_norm_hessian"} =>
        LET v == tensor_arguments.vector
            size == Len(v)
            squares == Sum([k \in 1..size |-> Times(v[k], v[k])], size)
        IN  \A r \in 0..squares[1] :
               r * r = squares[1] =>
                  /\ op = "l2_norm_gradient" =>
                        /\ Len(tensor_result.gradient) = size
                        /\ \A i \in 1..size :
                              IF r = 0
                              THEN tensor_result.gradient[i] = Whole(0)
                              ELSE Times(tensor_result.gradient[i], Whole(r)) = v[i]
                  /\ op = "l2_norm_hessian" =>
                        /\ tensor_result.hessian.d0 = size
                        /\ tensor_result.hessian.d1 = size
                        /\ \A i, j \in 0..(size - 1) :
                              IF r = 0
                              THEN At(tensor_result.hessian, i, j) = Whole(0)
                              ELSE Times(At(tensor_result.hessian, i, j), Whole(r * r * r))
                                      = Times(v[i + 1], v[j + 1])

\* the Hessian of a vector of norm zero has been computed
C25_Witness ==
    /\ op = "l2_norm_hessian"
    /\ Len(tensor_arguments.vector) = 2
    /\ dot(tensor_arguments.vector, tensor_arguments.vector) = Whole(0)
    /\ tensor_result.hessian = zero_matrix(2)

\* C26: when a shape check fails, its message reports the actual size of the
\* offending dimension together with the expected size: the size of the vector,
\* the row count of the matrix or, for a mismatch of the columns, the column
\* count of the matrix
C26_MessageReportsActualSize ==
    (op \in {"check_size", "check_dimensions", "check_columns_number"}
        /\ error = "logic_error") =>
        /\ diagnostic.quantity = "Size of vector" =>
              /\ diagnostic.reported = Len(tensor_arguments.vector)
              /\ diagnostic.expected = tensor_arguments.size
        /\ diagnostic.quantity = "Number of rows in matrix" =>
              /\ diagnostic.reported = tensor_arguments.matrix.d0
              /\ diagnostic.expected = tensor_arguments.rows_number
        /\ diagnostic.quantity = "Number of columns in matrix" =>
              /\ diagnostic.reported = tensor_arguments.matrix.d1
              /\ diagnostic.expected = tensor_arguments.columns_number

----------------------------------------------------------------------------
(* Claims about the layer's shape *)

\* the weights have get_inputs_number() rows and get_neurons_number() columns,
\* there are get_neurons_number() biases and neurons * (inputs + 1) parameters
ShapesAgree(b, w) ==
    /\ w.d0 = get_inputs_number(w)
    /\ w.d1 = get_neurons_number(b)
    /\ get_biases_number(b) = get_neurons_number(b)
    /\ get_parameters_number(b, w) = get_neurons_number(b) * (get_inputs_number(w) + 1)

RawSetters == {"set_biases", "set_synaptic_weights"}

RawSetterBreaks ==
    /\ op \in RawSetters
    /\ ~ShapesAgree(biases, synaptic_weights)

\* bias n and weight (i, n) as the flattened vector p holds them for a layer of
\* the given numbers of inputs and neurons
BiasIn(p, n) == p[n + 1]

WeightIn(p, inputs_number, neurons_number, i, n) ==
    p[neurons_number + n * inputs_number + i + 1]

\* C28: for a vector p of length get_parameters_number(), get_biases(p),
\* get_synaptic_weights(p), the candidate view of forward_propagate(inputs, p,
\* buffer) and the layer after set_parameters(p, 0) all take bias n from p[n]
\* and weight (i, n) from p[neurons + n * inputs + i]; for a longer vector
\* get_synaptic_weights(p) reads the last inputs * neurons entries of p
C28_ViewsAgree ==
    LET inputs_number == get_inputs_number(synaptic_weights)
        neurons_number == get_neurons_number(biases)
        p == parameters
        exact == Len(p) = get_parameters_number(biases, synaptic_weights)
        longer == Len(p) > get_parameters_number(biases, synaptic_weights)
    IN  /\ (op = "get_biases" /\ exact) =>
              /\ tensor_result.d0 = 1 /\ tensor_result.d1 = neurons_number
              /\ \A n \in 0..(neurons_number - 1) :
                    At(tensor_result, 0, n) = BiasIn(p, n)
        /\ (op = "get_synaptic_weights" /\ exact) =>
              /\ tensor_result.d0 = inputs_number /\ tensor_result.d1 = neurons_number
              /\ \A i \in 0..(inputs_number - 1) : \A n \in 0..(neurons_number - 1) :
                    At(tensor_result, i, n) =
                        WeightIn(p, inputs_number, neurons_number, i, n)
        /\ (op = "get_synaptic_weights" /\ longer) =>
              /\ tensor_result.d0 = inputs_number /\ tensor_result.d1 = neurons_number
              /\ \A i \in 0..(inputs_number - 1) : \A n \in 0..(neurons_number - 1) :
                    At(tensor_result, i, n) =
                        p[Len(p) - inputs_number * neurons_number + n * inputs_number + i + 1]
        /\ (op = "set_parameters" /\ exact /\ index = 0) =>
              /\ \A n \in 0..(neurons_number - 1) : Linear(biases, n) = BiasIn(p, n)
              /\ \A i \in 0..(inputs_number - 1) : \A n \in 0..(neurons_number - 1) :
                    At(synaptic_weights, i, n) =
                        WeightIn(p, inputs_number, neurons_number, i, n)
        /\ (op = "forward_propagate_potential" /\ exact /\ error = "none") =>
              \A s \in 0..(inputs.d0 - 1) : \A n \in 0..(neurons_number - 1) :
                 At(combinations, s, n) =
                     BiasIn(p, n)
                     + SumTo([k \in 1..inputs_number |->
                                 At(inputs, s, k - 1)
                                 * WeightIn(p, inputs_number, neurons_number, k - 1, n)],
                             inputs_number)

\* the weights have been read from a vector one entry longer than the layer's
\* parameters: they come from its last entries
C28_Witness ==
    /\ op = "get_synaptic_weights"
    /\ get_inputs_number(synaptic_weights) = 2
    /\ get_neurons_number(biases) = 2
    /\ parameters = <<1, 2, 3, 4, 5, 6, 7>>
    /\ tensor_result.data = <<4, 5, 6, 7>>

----------------------------------------------------------------------------
(* Claims about the gradient of the network *)

\* C29: insert_gradient(back_propagation, index, gradient) copies the bias
\* derivatives to gradient[index .. index + neurons - 1] and the weight
\* derivatives, column-major, to gradient[index + neurons .. index +
\* neurons * (inputs + 1) - 1], and leaves every other entry of gradient as it
\* was; set_parameters(gradient, index) would read each derivative back into
\* the parameter it belongs to
C29_InsertGradient ==
    [][op' = "insert_gradient" =>
          LET inputs_number == get_inputs_number(synaptic_weights)
              neurons_number == get_neurons_number(biases)
          IN  /\ Len(gradient') = Len(gradient)
              /\ \A n \in 0..(neurons_number - 1) :
                    gradient'[index' + n + 1] = biases_derivatives[n + 1]
              /\ \A i \in 0..(inputs_number - 1) : \A n \in 0..(neurons_number - 1) :
                    gradient'[index' + neurons_number + n * inputs_number + i + 1]
                        = At(synaptic_weights_derivatives, i, n)
              /\ \A k \in 1..Len(gradient) :
                    (k <= index' \/ k > index' + neurons_number * (inputs_number + 1))
                        => gradient'[k] = gradient[k]
              /\ set_parameters_biases(biases, synaptic_weights, gradient', index').data
                     = biases_derivatives
              /\ set_parameters_weights(biases, synaptic_weights, gradient', index').data
                     = synaptic_weights_derivatives.data]_vars

\* the computed derivatives of a layer of two inputs and two neurons have been
\* inserted from index 1 on in a vector of eight entries
C29_Witness ==
    /\ op = "insert_gradient"
    /\ index = 1
    /\ get_inputs_number(synaptic_weights) = 2
    /\ get_neurons_number(biases) = 2
    /\ Len(gradient) = 8
    /\ gradient[1] \in {100, -100}
    /\ gradient[8] \in {107, -107}
    /\ SubSeq(gradient, 2, 3) = biases_derivatives
    /\ SubSeq(gradient, 4, 7) = synaptic_weights_derivatives.data

\* every iteration of the parallel loop has run to its end
LoopFinished ==
    \A k \in 1..Len(iterations) :
        CASE op = "kronecker_product" ->
                 inner_loop_finished(k, Len(tensor_arguments.vector))
          [] op = "fill_submatrix" ->
                 inner_loop_finished(k, Len(tensor_arguments.rows_indices))
          [] op = "sum_diagonal" -> iterations[k].inner = 2

\* what the loop gives when its iterations run one after the other
SequentialResult ==
    CASE op = "kronecker_product" ->
             kronecker_product(tensor_arguments.vector, tensor_arguments.other_vector)
      [] op = "fill_submatrix" ->
             fill_submatrix(tensor_arguments.matrix, tensor_arguments.rows_indices,
                            tensor_arguments.columns_indices)
      [] op = "sum_diagonal" ->
             sum_diagonal(tensor_arguments.matrix, tensor_arguments.value)

\* the iteration that owns cell c (from 1) of the output: the row of direct,
\* the column of the submatrix, the row of a diagonal cell of the matrix
CellOwner(c) ==
    CASE op = "kronecker_product" -> ((c - 1) % tensor_result.d0) + 1
      [] op = "fill_submatrix" -> ((c - 1) \div tensor_result.d0) + 1
      [] op = "sum_diagonal" ->
             IF (c - 1) % tensor_result.d0 = (c - 1) \div tensor_result.d0
             THEN ((c - 1) % tensor_result.d0) + 1
             ELSE 0

\* C30: in the parallel loops of kronecker_product, fill_submatrix and
\* sum_diagonal a step of an iteration changes the loop state of that iteration
\* only and writes only cells that iteration owns, and under every interleaving
\* the finished loop has produced the result of the sequential loop
C30_ParallelLoops ==
    /\ [](LoopFinished => tensor_result = SequentialResult)
    /\ [][\E k \in 1..Len(iterations) :
             /\ \A other \in 1..Len(iterations) :
                   other # k => iterations'[other] = iterations[other]
             /\ \A c \in 1..Size(tensor_result) :
                   tensor_result'.data[c] # tensor_result.data[c] => CellOwner(c) = k]_vars

\* the two interleaved iterations of a kronecker product of two vectors of two
\* entries have finished and every cell of direct has been written
C30_Witness ==
    /\ op = "kronecker_product"
    /\ Len(tensor_arguments.vector) = 2
    /\ LoopFinished
    /\ tensor_result = SequentialResult
    /\ tensor_result.data # Filled(4, tensor_result.data[1])

====
